---- MODULE Spec2Model ----
(***************************************************************************)
(* Queue coordination protocol of the Headless Queue Manager               *)
(* (QueueManagerGUI_v2.py): the envelope files of .tasks/inbox, failed and *)
(* quarantine, the operator's handlers that enqueue, retry, delete and     *)
(* edit them, and the external worker that drains inbox concurrently;      *)
(* the circuit breaker document with refresh and force-close, the ledger   *)
(* aggregation of the metrics tab, and the log tailer.                     *)
(***************************************************************************)
EXTENDS Integers, Sequences, FiniteSets, TLC

VARIABLES
    fs,             \* directory -> (file name -> [ino, data])
    nextIno,        \* next unused inode number
    now,            \* wall clock, in seconds
    failedList,     \* MainWindow.failedList: names listed from failed
    quarantineList, \* MainWindow.quarantineList: names listed from quarantine
    pc,             \* position of the GUI thread inside the running handler
    loc,            \* locals of the running handler
    msg,            \* the last message box shown to the operator
    opsLeft,        \* handlers the operator may still start
    cbFile,         \* .state/circuit_breakers.json: [exists, text]
    breakerView,    \* MainWindow.breakerView: rows <<tool, state, fails, until>>
    cb,             \* locals of force_close_breaker
    ledger,         \* logs/ledger.jsonl: [exists, lines]
    metrics,        \* what MetricsTab shows after refresh_metrics
    logf,           \* the tailed log file: [exists, ino, data]
    tailer,         \* LogTailer: [pos, inode]
    emitted,        \* the batches LogTailer.new_lines has emitted
    templates,      \* TemplatesModel: [templates, changed]
    hbFile,         \* .state/heartbeat.json: [exists, text]
    status          \* MainWindow.lblStatus and the tray icon: [text, active]

breakerVars == <<cbFile, breakerView, cb>>

metricVars == <<ledger, metrics>>

tailVars == <<logf, tailer, emitted>>

\* the template catalog and the worker's heartbeat
sideVars == <<templates, hbFile, status>>

\* the panels next to the queue: breakers, metrics, live log, templates, status
panelVars == <<breakerVars, metricVars, tailVars, sideVars>>

queueVars == <<fs, nextIno, failedList, quarantineList, loc>>

vars ==
    <<fs, nextIno, now, failedList, quarantineList, pc, loc, msg, opsLeft,
      cbFile, breakerView, cb, ledger, metrics, logf, tailer, emitted,
      templates, hbFile, status>>

----------------------------------------------------------------------------
(* Bounds of the model *)

MaxOps == 2
MaxEdits == 1
MaxTime == 2
MaxLedger == 3
MaxLog == 3
MaxCuts == 1
MaxLoads == 2
MaxRotations == 1

----------------------------------------------------------------------------
(* Text: a line is a sequence of tokens, a file's data a sequence of lines *)

Punct == {"{", "}", "[", "]", ":", ",", " ", "bad"}

IsStr(t) == t \notin Punct

\* dict as an insertion-ordered sequence of <<key, value>> pairs
Keys(d) == {d[i][1] : i \in 1..Len(d)}

Has(d, k) == k \in Keys(d)

\* dict.get(k): the value of the last pair with that key, "" standing for None
Get(d, k) ==
    IF Has(d, k)
    THEN d[CHOOSE i \in 1..Len(d) :
                /\ d[i][1] = k
                /\ \A j \in (i + 1)..Len(d) : d[j][1] # k][2]
    ELSE ""

\* d[k] = v: in place when the key exists, appended otherwise
Set(d, k, v) ==
    IF Has(d, k)
    THEN [i \in 1..Len(d) |-> IF d[i][1] = k THEN <<k, v>> ELSE d[i]]
    ELSE Append(d, <<k, v>>)

\* equality of dicts as mappings, but for key k0
DictEqExcept(d1, d2, k0) ==
    /\ Keys(d1) \ {k0} = Keys(d2) \ {k0}
    /\ \A k \in Keys(d1) \ {k0} : Get(d1, k) = Get(d2, k)

RECURSIVE DumpPairs(_)
DumpPairs(d) ==
    IF d = <<>> THEN <<>>
    ELSE <<d[1][1], ":", d[1][2]>>
         \o (IF Len(d) > 1 THEN <<",">> ELSE <<>>)
         \o DumpPairs(Tail(d))

\* a serializer that loses the last member
JsonDumps_DropLast(d) ==
    <<"{">> \o DumpPairs(SubSeq(d, 1, Len(d) - 1)) \o <<"}">>

\* json.dumps(task, ensure_ascii=False)
JsonDumps(d) == <<"{">> \o DumpPairs(d) \o <<"}">>

ParseError == <<<<"error">>>>

\* the members of an object, after the opening brace: k : v { , k : v }
RECURSIVE ParsePairs(_)
ParsePairs(toks) ==
    IF Len(toks) < 3 THEN ParseError
    ELSE IF ~(IsStr(toks[1]) /\ toks[2] = ":" /\ IsStr(toks[3])) THEN ParseError
    ELSE IF Len(toks) = 3 THEN <<<<toks[1], toks[3]>>>>
    ELSE IF toks[4] # "," THEN ParseError
    ELSE LET rest == ParsePairs(SubSeq(toks, 5, Len(toks)))
         IN  IF rest = ParseError THEN ParseError
             ELSE <<<<toks[1], toks[3]>>>> \o rest

\* json.loads(line): the parsed object, or ParseError when it raises
JsonLoads(line) ==
    LET toks == SelectSeq(line, LAMBDA t : t # " ")
    IN  IF Len(toks) = 1 /\ IsStr(toks[1]) THEN <<<<"scalar", toks[1]>>>>
        ELSE IF Len(toks) < 2 THEN ParseError
        ELSE IF toks[1] # "{" \/ toks[Len(toks)] # "}" THEN ParseError
        ELSE IF Len(toks) = 2 THEN <<>>
        ELSE ParsePairs(SubSeq(toks, 2, Len(toks) - 1))

JsonValid(line) == JsonLoads(line) # ParseError

\* ln.strip() is empty
IsBlank(line) == \A i \in 1..Len(line) : line[i] = " "

----------------------------------------------------------------------------
(* File names and directories *)

Dirs == {"inbox", "failed", "quarantine"}

Ids == {"a", "b"}

\* f"task_{tid}.jsonl"
TaskName(tid) == <<"task_", tid, ".jsonl">>

\* f"edited_{ts}_{path.name}"
EditedName(ts, name) == <<"edited_", ts, "_">> \o name

\* a backup name that keeps the .jsonl ending
BackupName_Jsonl(name) == name \o <<".bak", ".jsonl">>

\* path.with_suffix(path.suffix + ".bak")
BackupName(name) == name \o <<".bak">>

\* folder.glob("*.jsonl")
IsJsonl(name) == name[Len(name)] = ".jsonl"

\* datetime.now().strftime("%Y%m%d%H%M%S")
Strftime(t) == ToString(t)

\* the tokens of file names, in character order
TokOrder ==
    <<".bak", ".jsonl", "0", "1", "2", "3", "4", "5", "6", "7", "8", "9",
      "_", "a", "b", "edited_", "task_">>

Rank(t) == CHOOSE i \in 1..Len(TokOrder) : TokOrder[i] = t

RECURSIVE NameLess(_, _)
NameLess(n1, n2) ==
    IF n1 = <<>> THEN n2 # <<>>
    ELSE IF n2 = <<>> THEN FALSE
    ELSE IF n1[1] # n2[1] THEN Rank(n1[1]) < Rank(n2[1])
    ELSE NameLess(Tail(n1), Tail(n2))

RECURSIVE SortedNames(_)
SortedNames(S) ==
    IF S = {} THEN <<>>
    ELSE LET m == CHOOSE x \in S : \A y \in S \ {x} : NameLess(x, y)
         IN  <<m>> \o SortedNames(S \ {m})

File(ino, data) == [ino |-> ino, data |-> data]

Exists(f, d, name) == name \in DOMAIN f[d]

Put(f, d, name, file) ==
    [f EXCEPT ![d] = [n \in (DOMAIN f[d]) \cup {name} |->
                          IF n = name THEN file ELSE f[d][n]]]

Remove(f, d, name) ==
    [f EXCEPT ![d] = [n \in (DOMAIN f[d]) \ {name} |-> f[d][n]]]

\* os.rename(src, dst) within one filesystem: one step, replacing dst
Rename(f, sd, sn, dd, dn) ==
    Put(Remove(f, sd, sn), dd, dn, f[sd][sn])

\* a write through an open descriptor reaches the inode wherever it is linked
WriteIno(f, ino, data) ==
    [d \in Dirs |-> [n \in DOMAIN f[d] |->
        IF f[d][n].ino = ino THEN File(ino, data) ELSE f[d][n]]]

\* the inodes linked in directory d
Inos(f, d) == {f[d][n].ino : n \in DOMAIN f[d]}

\* the directory entries that link inode k
Links(f, k) ==
    UNION {{<<d, n>> : n \in {m \in DOMAIN f[d] : f[d][m].ino = k}} : d \in Dirs}

\* what inode k holds, nothing when no entry links it
DataOf(f, k) ==
    IF Links(f, k) = {} THEN <<>>
    ELSE LET l == CHOOSE x \in Links(f, k) : TRUE IN f[l[1]][l[2]].data

----------------------------------------------------------------------------
(* Handler state *)

NoPath == <<"", <<>>>>

\* task0, items0, snap and log record what the handler was given and did;
\* the handler itself reads only the other fields
NoLoc ==
    [task0 |-> <<>>, task |-> <<>>, path |-> NoPath, ino |-> 0,
     items |-> <<>>, n |-> 0, lines |-> <<>>, newName |-> <<>>,
     items0 |-> <<>>, snap |-> {}, log |-> <<>>]

NoMsg == [kind |-> "none", title |-> "", n |-> 0, path |-> NoPath]

Msg(kind, title, n, path) ==
    [kind |-> kind, title |-> title, n |-> n, path |-> path]

\* an exception no handler catches leaves the slot
Raise ==
    /\ pc' = "aborted"
    /\ loc' = NoLoc
    /\ UNCHANGED msg

Envelope(id, tool) == <<<<"id", id>>, <<"tool", tool>>>>

\* the envelopes the operator may submit: with an id, with an empty id, without
Envelopes ==
    {Envelope("a", "git"), Envelope("", "git"), <<<<"tool", "aider">>>>}

InitInbox(S) ==
    [n \in {TaskName(i) : i \in S} |->
        File(Rank(n[2]) + 2 * Len(TokOrder), <<JsonDumps(Envelope(n[2], "git"))>>)]

InitFailed(S) ==
    [n \in {TaskName(i) : i \in S} |->
        File(Rank(n[2]), <<JsonDumps(Envelope(n[2], "git"))>>)]

InitQuarantine(S) ==
    [n \in {TaskName(i) : i \in S} |->
        File(Rank(n[2]) + Len(TokOrder), <<JsonDumps(Envelope(n[2], "aider"))>>)]

\* no breaker document, an empty table, no force-close running
NoCbFile == [exists |-> FALSE, text |-> <<>>]

\* read, tools, t0 and seen record what the handlers were given; seen is the
\* file the last refresh_breakers found and the rows it replaced; raced
\* records that the worker wrote after force_close had read
NoSeen == [file |-> NoCbFile, ok |-> TRUE, before |-> <<>>]

NoCb ==
    [read |-> <<>>, data |-> <<>>, tools |-> {}, t0 |-> 0, out |-> <<>>,
     seen |-> NoSeen, raced |-> FALSE]

BreakersIdle ==
    /\ cbFile = NoCbFile
    /\ breakerView = <<>>
    /\ cb = NoCb

\* no ledger, the metrics tab as constructed
NoLedger == [exists |-> FALSE, lines |-> <<>>]

\* read and finals record the lines the last refresh read and the final
\* record it chose for each id; the rest is what the tab holds and shows
NoMetrics ==
    [status |-> "new", total |-> 0, success |-> 0, success_rate |-> <<0, 1>>,
     avg_duration |-> <<0, 1>>, summary |-> <<>>, durations |-> <<>>,
     tool_stats |-> <<>>, counts |-> <<>>, finals |-> <<>>, read |-> <<>>]

MetricsIdle ==
    /\ ledger = NoLedger
    /\ metrics = NoMetrics

\* no log file; LogTailer.__init__: _pos = 0, _inode = None
\* data is the characters of the file; lines records the lines appended
\* since the file was created or last truncated, cuts the truncations
NoLog == [exists |-> FALSE, ino |-> 0, data |-> <<>>, lines |-> <<>>, cuts |-> 0]

NoInode == 0

\* pc is the place inside _poll; last and linesSeen record how the last poll
\* ended and how many lines the file had at the last read, before what the
\* running poll found when it began, cutsSeen the truncations made when the
\* last poll ended
NewTailer ==
    [pos |-> 0, inode |-> NoInode, pc |-> "idle", last |-> "none", linesSeen |-> 0,
     before |-> [pos |-> 0, inode |-> NoInode, cuts |-> 0], cutsSeen |-> 0]

TailIdle ==
    /\ logf = NoLog
    /\ tailer = NewTailer
    /\ emitted = <<>>

\* TemplatesModel.__init__: an empty catalog; changed counts the emissions of
\* the changed signal; ops, doc, before and last record the calls made, the
\* text the last load was given, the catalog it found and how it ended
NoTemplates ==
    [templates |-> <<>>, changed |-> 0, ops |-> 0, doc |-> <<>>,
     before |-> <<>>, last |-> "new"]

\* no heartbeat document; lblStatus as constructed, the tray icon inactive;
\* seen records the document, the clock and the outcome of the read of the
\* last check_heartbeat
NoHbFile == [exists |-> FALSE, text |-> <<>>]

NoStatus ==
    [text |-> "Stopped", active |-> FALSE,
     seen |-> [checked |-> FALSE, file |-> NoHbFile, t |-> 0, ok |-> TRUE]]

SideIdle ==
    /\ templates = NoTemplates
    /\ hbFile = NoHbFile
    /\ status = NoStatus

\* the queue with nothing in it
QueueEmpty(ops) ==
    /\ fs = [d \in Dirs |-> <<>>]
    /\ nextIno = 3 * Len(TokOrder) + 1
    /\ now = 1
    /\ failedList = <<>>
    /\ quarantineList = <<>>
    /\ pc = "idle"
    /\ loc = NoLoc
    /\ msg = NoMsg
    /\ opsLeft = ops

InitWith(ops) ==
    /\ BreakersIdle
    /\ MetricsIdle
    /\ TailIdle
    /\ SideIdle
    /\ \E I \in SUBSET {"a"}, F \in SUBSET Ids, Q \in SUBSET {"a"} :
          fs = [inbox |-> InitInbox(I), failed |-> InitFailed(F),
                quarantine |-> InitQuarantine(Q)]
    /\ nextIno = 3 * Len(TokOrder) + 1
    /\ now = 1
    /\ failedList = <<>>
    /\ quarantineList = <<>>
    /\ pc = "idle"
    /\ loc = NoLoc
    /\ msg = NoMsg
    /\ opsLeft = ops

Init == InitWith(MaxOps)

\* the editor is the one handler with a dialog: its runs get their own budget
InitEdit == InitWith(MaxEdits)

----------------------------------------------------------------------------
(* enqueue_task_dict *)

EnqueueStart(e) ==
    /\ pc = "idle"
    /\ opsLeft > 0
    /\ LET tid == IF Get(e, "id") # "" THEN Get(e, "id") ELSE Strftime(now)
       IN  loc' = [NoLoc EXCEPT !.task0 = e,
                                !.task = Set(e, "id", tid),
                                !.path = <<"inbox", TaskName(tid)>>]
    /\ pc' = "enq_open"
    /\ opsLeft' = opsLeft - 1
    /\ UNCHANGED <<fs, nextIno, now, failedList, quarantineList, msg, panelVars>>

\* an open that keeps what the file holds: open(path, "a")
OpenW_Append(f, d, name, ino) ==
    IF Exists(f, d, name) THEN f ELSE Put(f, d, name, File(ino, <<>>))

\* open(path, "w"): creates the file, or truncates the existing one
OpenW(f, d, name, ino) ==
    IF Exists(f, d, name)
    THEN Put(f, d, name, File(f[d][name].ino, <<>>))
    ELSE Put(f, d, name, File(ino, <<>>))

EnqOpen ==
    /\ pc = "enq_open"
    /\ \E ok \in BOOLEAN :
          IF ok
          THEN LET d == loc.path[1]
                   name == loc.path[2]
               IN  /\ fs' = OpenW(fs, d, name, nextIno)
                   /\ nextIno' = IF Exists(fs, d, name) THEN nextIno ELSE nextIno + 1
                   /\ loc' = [loc EXCEPT
                                !.ino = fs'[d][name].ino,
                                !.log = IF Exists(fs, d, name)
                                        THEN <<<<"overwrote", fs[d][name].data>>>>
                                        ELSE <<<<"created", <<>>>>>>]
                   /\ pc' = "enq_write"
                   /\ UNCHANGED msg
          ELSE Raise /\ UNCHANGED <<fs, nextIno>>
    /\ UNCHANGED <<now, failedList, quarantineList, opsLeft, panelVars>>

\* the text handed to write_text
EnqueueText(task) == <<JsonDumps(task)>>

EnqWrite ==
    /\ pc = "enq_write"
    /\ \E ok \in BOOLEAN :
          IF ok
          THEN /\ fs' = WriteIno(fs, loc.ino,
                               DataOf(fs, loc.ino) \o EnqueueText(loc.task))
               /\ msg' = Msg("information", "Queued", 0, loc.path)
               /\ pc' = "idle"
               /\ loc' = [NoLoc EXCEPT !.log = loc.log]
          ELSE Raise /\ UNCHANGED fs
    /\ UNCHANGED <<nextIno, now, failedList, quarantineList, opsLeft, panelVars>>

----------------------------------------------------------------------------
(* refresh_dlq and the selection of the two list widgets *)

\* sorted(folder.glob("*.jsonl"))
Listing(f, d) == SortedNames({n \in DOMAIN f[d] : IsJsonl(n)})

RefreshLists ==
    /\ failedList' = Listing(fs', "failed")
    /\ quarantineList' = Listing(fs', "quarantine")

\* the Refresh button
RefreshDlq ==
    /\ pc = "idle"
    /\ UNCHANGED fs
    /\ RefreshLists
    /\ <<failedList', quarantineList'>> # <<failedList, quarantineList>>
    /\ UNCHANGED <<nextIno, now, pc, loc, msg, opsLeft, panelVars>>

PathsOf(d, names) == [i \in 1..Len(names) |-> <<d, names[i]>>]

\* selectedItems() of failedList then quarantineList: each list widget is in
\* single-selection mode, i and j are the selected rows (0: none)
Selected(i, j) ==
    (IF i = 0 THEN <<>> ELSE <<<<"failed", failedList[i]>>>>)
        \o (IF j = 0 THEN <<>> ELSE <<<<"quarantine", quarantineList[j]>>>>)

InoAt(f, p) == IF Exists(f, p[1], p[2]) THEN f[p[1]][p[2]].ino ELSE 0

\* a move that copies and leaves the source behind
ShutilMove_Copy(f, p) == Put(f, "inbox", p[2], f[p[1]][p[2]])

\* a move that recreates the file in inbox without its content
ShutilMove_Empty(f, p) ==
    Put(Remove(f, p[1], p[2]), "inbox", p[2], File(f[p[1]][p[2]].ino, <<>>))

\* shutil.move(p, inbox / Path(p).name): os.rename on the same filesystem
ShutilMove(f, p) == Rename(f, p[1], p[2], "inbox", p[2])

----------------------------------------------------------------------------
(* retry_failed: retry every listed file *)

RetryAllStart ==
    /\ pc = "idle"
    /\ opsLeft > 0
    /\ UNCHANGED fs
    /\ RefreshLists
    /\ LET items == PathsOf("failed", failedList')
                        \o PathsOf("quarantine", quarantineList')
       IN  loc' = [NoLoc EXCEPT !.items = items, !.items0 = items,
                                !.snap = Inos(fs, "failed") \cup Inos(fs, "quarantine")]
    /\ pc' = "retryall_loop"
    /\ opsLeft' = opsLeft - 1
    /\ UNCHANGED <<nextIno, now, msg, panelVars>>

\* an iteration that lists the directories again and queues what is new
MoveStep_Rescan(ok) ==
    LET p == Head(loc.items)
        known == {loc.items0[k] : k \in 1..Len(loc.items0)}
                    \cup {loc.items[k] : k \in 1..Len(loc.items)}
                    \cup {loc.log[k][1] : k \in 1..Len(loc.log)}
        fresh(d) == SelectSeq(PathsOf(d, Listing(fs, d)), LAMBDA q : q \notin known)
        rest == Tail(loc.items) \o fresh("failed") \o fresh("quarantine")
    IN  IF Exists(fs, p[1], p[2]) /\ ok
        THEN /\ fs' = Rename(fs, p[1], p[2], "inbox", p[2])
             /\ loc' = [loc EXCEPT !.items = rest,
                                   !.n = loc.n + 1,
                                   !.log = Append(loc.log, <<p, InoAt(fs, p), "moved">>)]
        ELSE /\ fs' = fs
             /\ loc' = [loc EXCEPT !.items = rest,
                                   !.log = Append(loc.log, <<p, InoAt(fs, p), "error">>)]

\* an iteration whose exception ends the loop
MoveStep_AbortOnError(ok) ==
    LET p == Head(loc.items)
    IN  IF Exists(fs, p[1], p[2]) /\ ok
        THEN /\ fs' = Rename(fs, p[1], p[2], "inbox", p[2])
             /\ loc' = [loc EXCEPT !.items = Tail(loc.items),
                                   !.n = loc.n + 1,
                                   !.log = Append(loc.log, <<p, InoAt(fs, p), "moved">>)]
        ELSE /\ fs' = fs
             /\ loc' = [loc EXCEPT !.items = <<>>,
                                   !.log = Append(loc.log, <<p, InoAt(fs, p), "error">>)]

\* one iteration of a retry loop: the move, or the exception it swallows
MoveStep(ok) ==
    LET p == Head(loc.items)
    IN  IF Exists(fs, p[1], p[2]) /\ ok
        THEN /\ fs' = ShutilMove(fs, p)
             /\ loc' = [loc EXCEPT !.items = Tail(loc.items),
                                   !.n = loc.n + 1,
                                   !.log = Append(loc.log, <<p, InoAt(fs, p), "moved">>)]
        ELSE /\ fs' = fs
             /\ loc' = [loc EXCEPT !.items = Tail(loc.items),
                                   !.log = Append(loc.log, <<p, InoAt(fs, p), "error">>)]

RetryAllStep ==
    /\ pc = "retryall_loop"
    /\ loc.items # <<>>
    /\ \E ok \in BOOLEAN : MoveStep(ok)
    /\ UNCHANGED <<nextIno, now, failedList, quarantineList, pc, msg, opsLeft, panelVars>>

RetryAllDone ==
    /\ pc = "retryall_loop"
    /\ loc.items = <<>>
    /\ msg' = Msg("information", "Retry", loc.n, NoPath)
    /\ pc' = "idle"
    /\ loc' = NoLoc
    /\ UNCHANGED <<fs, nextIno, now, failedList, quarantineList, opsLeft, panelVars>>

----------------------------------------------------------------------------
(* retry_selected_dlq *)

RetrySelStart(i, j) ==
    /\ pc = "idle"
    /\ opsLeft > 0
    /\ loc' = [NoLoc EXCEPT !.items = Selected(i, j), !.items0 = Selected(i, j),
                             !.snap = {InoAt(fs, Selected(i, j)[k]) :
                                          k \in 1..Len(Selected(i, j))} \ {0}]
    /\ pc' = "retry_loop"
    /\ opsLeft' = opsLeft - 1
    /\ UNCHANGED <<fs, nextIno, now, failedList, quarantineList, msg, panelVars>>

RetrySelStep ==
    /\ pc = "retry_loop"
    /\ loc.items # <<>>
    /\ \E ok \in BOOLEAN : MoveStep(ok)
    /\ UNCHANGED <<nextIno, now, failedList, quarantineList, pc, msg, opsLeft, panelVars>>

RetrySelDone ==
    /\ pc = "retry_loop"
    /\ loc.items = <<>>
    /\ UNCHANGED fs
    /\ RefreshLists
    /\ msg' = Msg("information", "Retry", loc.n, NoPath)
    /\ pc' = "idle"
    /\ loc' = NoLoc
    /\ UNCHANGED <<nextIno, now, opsLeft, panelVars>>

----------------------------------------------------------------------------
(* delete_selected_dlq *)

DeleteStart(i, j) ==
    /\ pc = "idle"
    /\ opsLeft > 0
    /\ loc' = [NoLoc EXCEPT !.items = Selected(i, j), !.items0 = Selected(i, j)]
    /\ pc' = "delete_loop"
    /\ opsLeft' = opsLeft - 1
    /\ UNCHANGED <<fs, nextIno, now, failedList, quarantineList, msg, panelVars>>

\* an unlink that counts a missing file as deleted
UnlinkStep_CountMissing(ok) ==
    LET p == Head(loc.items)
        gone == ~Exists(fs, p[1], p[2])
    IN  /\ fs' = IF ~gone /\ ok THEN Remove(fs, p[1], p[2]) ELSE fs
        /\ loc' = [loc EXCEPT !.items = Tail(loc.items),
                              !.n = IF gone \/ ok THEN loc.n + 1 ELSE loc.n,
                              !.log = Append(loc.log,
                                  <<p, InoAt(fs, p),
                                    IF gone THEN "missing"
                                    ELSE IF ok THEN "unlinked" ELSE "error">>)]

\* Path(p).unlink() inside try / except Exception: pass
UnlinkStep(ok) ==
    LET p == Head(loc.items)
    IN  IF Exists(fs, p[1], p[2]) /\ ok
        THEN /\ fs' = Remove(fs, p[1], p[2])
             /\ loc' = [loc EXCEPT !.items = Tail(loc.items),
                                   !.n = loc.n + 1,
                                   !.log = Append(loc.log, <<p, InoAt(fs, p), "unlinked">>)]
        ELSE /\ fs' = fs
             /\ loc' = [loc EXCEPT !.items = Tail(loc.items),
                                   !.log = Append(loc.log,
                                       <<p, InoAt(fs, p),
                                         IF Exists(fs, p[1], p[2]) THEN "error" ELSE "missing">>)]

DeleteStep ==
    /\ pc = "delete_loop"
    /\ loc.items # <<>>
    /\ \E ok \in BOOLEAN : UnlinkStep(ok)
    /\ UNCHANGED <<nextIno, now, failedList, quarantineList, pc, msg, opsLeft, panelVars>>

DeleteDone ==
    /\ pc = "delete_loop"
    /\ loc.items = <<>>
    /\ UNCHANGED fs
    /\ RefreshLists
    /\ msg' = Msg("information", "Delete", loc.n, NoPath)
    /\ pc' = "idle"
    /\ loc' = NoLoc
    /\ UNCHANGED <<nextIno, now, opsLeft, panelVars>>

----------------------------------------------------------------------------
(* edit_retry_selected_dlq *)

\* text.strip(), on whole lines: leading and trailing blank lines go
RECURSIVE DropBlankHead(_)
DropBlankHead(text) ==
    IF text # <<>> /\ IsBlank(Head(text)) THEN DropBlankHead(Tail(text)) ELSE text

RECURSIVE DropBlankTail(_)
DropBlankTail(text) ==
    IF text # <<>> /\ IsBlank(text[Len(text)])
    THEN DropBlankTail(SubSeq(text, 1, Len(text) - 1))
    ELSE text

Strip(text) == DropBlankTail(DropBlankHead(text))

\* [ln for ln in text.splitlines() if ln.strip()]
NonBlankLines(text) == SelectSeq(text, LAMBDA ln : ~IsBlank(ln))

\* a validation that stops after the first line
AllLinesValid_FirstOnly(lines) == lines = <<>> \/ JsonValid(lines[1])

\* for ln in lines: json.loads(ln)  -- no line raises
AllLinesValid(lines) == \A k \in 1..Len(lines) : JsonValid(lines[k])

EmptyObject == <<"{", "}">>

BadLine == <<"{", "bad">>

\* what the operator may leave in the editor
EditTexts ==
    { <<EmptyObject, BadLine>>,
      <<JsonDumps(Envelope("a", "git")), <<>>, EmptyObject>>,
      << <<" ">> >> }

EditStart(i, j) ==
    /\ pc = "idle"
    /\ opsLeft > 0
    /\ opsLeft' = opsLeft - 1
    /\ LET items == Selected(i, j)
       IN  IF items = <<>>
           THEN /\ msg' = Msg("information", "Edit", 0, NoPath)
                /\ UNCHANGED <<pc, loc>>
           ELSE IF ~Exists(fs, items[1][1], items[1][2])
           THEN /\ msg' = Msg("warning", "Missing", 0, items[1])
                /\ UNCHANGED <<pc, loc>>
           ELSE \E ok \in BOOLEAN :
                    IF ok
                    THEN /\ pc' = "edit_dialog"
                         /\ loc' = [NoLoc EXCEPT !.path = items[1],
                                                 !.snap = {InoAt(fs, items[1])}]
                         /\ UNCHANGED msg
                    ELSE Raise
    /\ UNCHANGED <<fs, nextIno, now, failedList, quarantineList, panelVars>>

EditCancel ==
    /\ pc = "edit_dialog"
    /\ pc' = "idle"
    /\ loc' = NoLoc
    /\ UNCHANGED <<fs, nextIno, now, failedList, quarantineList, msg, opsLeft, panelVars>>

EditAccept(text) ==
    /\ pc = "edit_dialog"
    /\ LET lines == NonBlankLines(Strip(text))
       IN  IF Strip(text) = <<>>
           THEN /\ msg' = Msg("warning", "Edit", 0, NoPath)
                /\ pc' = "idle"
                /\ loc' = NoLoc
           ELSE IF ~AllLinesValid(lines)
           THEN /\ msg' = Msg("critical", "Invalid JSON", 0, NoPath)
                /\ pc' = "idle"
                /\ loc' = NoLoc
           ELSE /\ loc' = [loc EXCEPT !.lines = lines,
                                      !.newName = EditedName(Strftime(now), loc.path[2])]
                /\ pc' = "edit_open"
                /\ UNCHANGED msg
    /\ UNCHANGED <<fs, nextIno, now, failedList, quarantineList, opsLeft, panelVars>>

\* an open of the new file that moves the original to its backup name first
EditOpen_RetireFirst ==
    /\ pc = "edit_open"
    /\ \E ok \in BOOLEAN :
          IF ok
          THEN /\ fs' = OpenW(IF Exists(fs, loc.path[1], loc.path[2])
                              THEN Rename(fs, loc.path[1], loc.path[2],
                                          loc.path[1], BackupName(loc.path[2]))
                              ELSE fs,
                              "inbox", loc.newName, nextIno)
               /\ nextIno' = IF Exists(fs, "inbox", loc.newName)
                             THEN nextIno ELSE nextIno + 1
               /\ loc' = [loc EXCEPT !.ino = fs'["inbox"][loc.newName].ino]
               /\ pc' = "edit_write"
               /\ UNCHANGED msg
          ELSE Raise /\ UNCHANGED <<fs, nextIno>>
    /\ UNCHANGED <<now, failedList, quarantineList, opsLeft, panelVars>>

EditOpen ==
    /\ pc = "edit_open"
    /\ \E ok \in BOOLEAN :
          IF ok
          THEN /\ fs' = OpenW(fs, "inbox", loc.newName, nextIno)
               /\ nextIno' = IF Exists(fs, "inbox", loc.newName)
                             THEN nextIno ELSE nextIno + 1
               /\ loc' = [loc EXCEPT !.ino = fs'["inbox"][loc.newName].ino]
               /\ pc' = "edit_write"
               /\ UNCHANGED msg
          ELSE Raise /\ UNCHANGED <<fs, nextIno>>
    /\ UNCHANGED <<now, failedList, quarantineList, opsLeft, panelVars>>

EditWrite ==
    /\ pc = "edit_write"
    /\ \E ok \in BOOLEAN :
          IF ok
          THEN /\ fs' = WriteIno(fs, loc.ino, loc.lines)
               /\ pc' = "edit_backup"
               /\ UNCHANGED <<loc, msg>>
          ELSE Raise /\ UNCHANGED fs
    /\ UNCHANGED <<nextIno, now, failedList, quarantineList, opsLeft, panelVars>>

\* try: path.rename(backup)  except Exception: path.unlink(missing_ok=True)
\* renameOk, unlinkOk: whether the call succeeds on a file that is there
EditBackup ==
    /\ pc = "edit_backup"
    /\ LET d == loc.path[1]
           name == loc.path[2]
       IN  \E renameOk \in BOOLEAN, unlinkOk \in BOOLEAN :
               IF ~Exists(fs, d, name)
               THEN /\ UNCHANGED <<fs, msg>>
                    /\ pc' = "edit_done"
                    /\ loc' = [loc EXCEPT !.log = <<"missing">>]
               ELSE IF renameOk
               THEN /\ fs' = Rename(fs, d, name, d, BackupName(name))
                    /\ pc' = "edit_done"
                    /\ loc' = [loc EXCEPT !.log = <<"renamed">>]
                    /\ UNCHANGED msg
               ELSE IF unlinkOk
               THEN /\ fs' = Remove(fs, d, name)
                    /\ pc' = "edit_done"
                    /\ loc' = [loc EXCEPT !.log = <<"unlinked">>]
                    /\ UNCHANGED msg
               ELSE Raise /\ UNCHANGED fs
    /\ UNCHANGED <<nextIno, now, failedList, quarantineList, opsLeft, panelVars>>

EditDone ==
    /\ pc = "edit_done"
    /\ UNCHANGED fs
    /\ RefreshLists
    /\ msg' = Msg("information", "Edit", 0, <<"inbox", loc.newName>>)
    /\ pc' = "idle"
    /\ loc' = NoLoc
    /\ UNCHANGED <<nextIno, now, opsLeft, panelVars>>

----------------------------------------------------------------------------
(* Circuit breaker store: circuit_breakers.json, refresh_breakers and
   force_close_breaker *)

\* tool names in character order
ToolOrder == <<"aider", "git">>

ToolRank(t) == CHOOSE i \in 1..Len(ToolOrder) : ToolOrder[i] = t

RECURSIVE SortedTools(_)
SortedTools(S) ==
    IF S = {} THEN <<>>
    ELSE LET m == CHOOSE x \in S : \A y \in S \ {x} : ToolRank(x) < ToolRank(y)
         IN  <<m>> \o SortedTools(S \ {m})

\* d.get(k, dflt)
GetOr(d, k, dflt) == IF Has(d, k) THEN Get(d, k) ELSE dflt

\* a parsed value that is not a dict
IsScalar(v) == v # <<>> /\ v[1][1] = "scalar"

IsDict(v) == v # ParseError /\ ~IsScalar(v)

\* the index of the first "}" at or after position k, 0 when there is none
RECURSIVE CloseAt(_, _)
CloseAt(toks, k) ==
    IF k > Len(toks) THEN 0
    ELSE IF toks[k] = "}" THEN k
    ELSE CloseAt(toks, k + 1)

\* the members of the document: tool : {...} or tool : scalar, comma separated
RECURSIVE ParseEntries(_)
ParseEntries(toks) ==
    IF Len(toks) < 3 THEN ParseError
    ELSE IF ~(IsStr(toks[1]) /\ toks[2] = ":") THEN ParseError
    ELSE LET j == IF toks[3] = "{" THEN CloseAt(toks, 4)
                  ELSE IF IsStr(toks[3]) THEN 3 ELSE 0
             rec == IF j = 0 THEN ParseError
                    ELSE IF j = 3 THEN <<<<"scalar", toks[3]>>>>
                    ELSE IF j = 4 THEN <<>>
                    ELSE ParsePairs(SubSeq(toks, 4, j - 1))
         IN  IF rec = ParseError THEN ParseError
             ELSE IF j = Len(toks) THEN <<<<toks[1], rec>>>>
             ELSE IF j + 2 > Len(toks) \/ toks[j + 1] # "," THEN ParseError
             ELSE LET rest == ParseEntries(SubSeq(toks, j + 2, Len(toks)))
                  IN  IF rest = ParseError THEN ParseError
                      ELSE <<<<toks[1], rec>>>> \o rest

\* json.loads(path.read_text()): tool -> record, a scalar, or ParseError
LoadsDoc(text) ==
    LET toks == SelectSeq(text, LAMBDA t : t # " ")
    IN  IF Len(toks) = 1 /\ IsStr(toks[1]) THEN <<<<"scalar", toks[1]>>>>
        ELSE IF Len(toks) < 2 THEN ParseError
        ELSE IF toks[1] # "{" \/ toks[Len(toks)] # "}" THEN ParseError
        ELSE IF Len(toks) = 2 THEN <<>>
        ELSE ParseEntries(SubSeq(toks, 2, Len(toks) - 1))

RECURSIVE DumpEntries(_)
DumpEntries(d) ==
    IF d = <<>> THEN <<>>
    ELSE <<d[1][1], ":">>
         \o (IF IsScalar(d[1][2]) THEN <<d[1][2][1][2]>> ELSE JsonDumps(d[1][2]))
         \o (IF Len(d) > 1 THEN <<",">> ELSE <<>>)
         \o DumpEntries(Tail(d))

\* json.dumps(data, ensure_ascii=False)
DumpsDoc(data) ==
    IF IsScalar(data) THEN <<data[1][2]>>
    ELSE <<"{">> \o DumpEntries(data) \o <<"}">>

\* datetime.now().isoformat()
Isoformat(t) == "T" \o ToString(t)

BreakerRec(state, fails, until) ==
    <<<<"state", state>>, <<"fails", fails>>, <<"until", until>>>>

\* the documents the worker leaves: tripped breakers with a future until,
\* closed ones, a record with a half-open state and a field of its own
WorkerDocs ==
    {<<<<"git", BreakerRec("open", "5", "T9")>>>>,
     <<<<"git", BreakerRec("open", "5", "T9")>>,
       <<"aider", BreakerRec("closed", "0", "")>>>>,
     <<<<"aider", Append(BreakerRec("half-open", "3", "T9"), <<"note", "x">>)>>>>}

\* what may be in the file: a document, a number, a torn write
CbTexts == {DumpsDoc(d) : d \in WorkerDocs} \cup {<<"5">>, <<"{", "bad">>}

CbFiles == {NoCbFile} \cup {[exists |-> TRUE, text |-> t] : t \in CbTexts}

\* a row whose cells were never set
EmptyRow == <<"", "", "", "">>

\* the rows inserted for the tools in order; a record that is not a dict
\* raises after its row was inserted, which ends the loop
RECURSIVE RowsOf(_, _)
RowsOf(data, tools) ==
    IF tools = <<>> THEN <<>>
    ELSE LET rec == Get(data, tools[1])
         IN  IF IsScalar(rec) THEN <<EmptyRow>>
             ELSE <<<<tools[1], GetOr(rec, "state", "?"),
                      GetOr(rec, "fails", "?"), GetOr(rec, "until", "")>>>>
                  \o RowsOf(data, Tail(tools))

\* a refresh that keeps the old rows when it cannot use the document
BreakerRows_KeepOnError(rows, file, ok) ==
    IF ~file.exists \/ ~ok \/ ~IsDict(LoadsDoc(file.text)) THEN rows
    ELSE RowsOf(LoadsDoc(file.text), SortedTools(Keys(LoadsDoc(file.text))))

\* refresh_breakers: the table after it, from the table before it
BreakerRows(rows, file, ok) ==
    LET cleared == <<>>
        data == LoadsDoc(file.text)
    IN  IF ~file.exists THEN cleared
        ELSE IF ~ok \/ data = ParseError THEN cleared
        ELSE IF ~IsDict(data) THEN cleared
        ELSE RowsOf(data, SortedTools(Keys(data)))

RefreshView(ok) ==
    /\ breakerView' = BreakerRows(breakerView, cbFile, ok)
    /\ cb' = [NoCb EXCEPT !.seen =
                 [file |-> cbFile, ok |-> ok, before |-> breakerView]]

\* the Refresh button of the breakers tab
RefreshBreakers ==
    /\ pc = "idle"
    /\ \E ok \in BOOLEAN : RefreshView(ok)
    /\ UNCHANGED <<cbFile, queueVars, now, pc, msg, opsLeft, metricVars, tailVars, sideVars>>

Raised == <<<<"raise">>>>

\* an entry closed without resetting its failure counter
CloseEntry_KeepFails(rec, t) ==
    Set(Set(rec, "state", "closed"), "until", Isoformat(t))

\* data[t]["state"] = "closed"; data[t]["fails"] = 0; data[t]["until"] = now
CloseEntry(rec, t) ==
    Set(Set(Set(rec, "state", "closed"), "fails", "0"), "until", Isoformat(t))

\* a loop that closes a named tool whether the document has it or not
RECURSIVE CloseTools_AddMissing(_, _, _)
CloseTools_AddMissing(data, tools, t) ==
    IF tools = <<>> THEN data
    ELSE IF IsScalar(data) THEN Raised
    ELSE CloseTools_AddMissing(
             Set(data, tools[1],
                 CloseEntry(IF Has(data, tools[1]) THEN Get(data, tools[1])
                            ELSE <<>>, t)),
             Tail(tools), t)

\* for t in tools: if t in data: ...; Raised when a TypeError ends it
RECURSIVE CloseTools(_, _, _)
CloseTools(data, tools, t) ==
    IF tools = <<>> THEN data
    ELSE IF IsScalar(data) THEN Raised
    ELSE IF ~Has(data, tools[1]) THEN CloseTools(data, Tail(tools), t)
    ELSE IF IsScalar(Get(data, tools[1])) THEN Raised
    ELSE CloseTools(Set(data, tools[1], CloseEntry(Get(data, tools[1]), t)),
                    Tail(tools), t)

\* a read that takes an unparsable document for an empty one
ReadDoc_EmptyOnError(text) ==
    IF LoadsDoc(text) = ParseError THEN <<>> ELSE LoadsDoc(text)

\* json.loads(path.read_text(encoding="utf-8")) in force_close_breaker
ReadDoc(text) == LoadsDoc(text)

CbError == Msg("critical", "Error", 0, NoPath)

\* the tools of the selected rows
ToolsOf(rows, sel) == {rows[i][1] : i \in sel}

\* force_close_breaker up to its write: sel is the set of selected rows
CbStart(sel) ==
    /\ pc = "idle"
    /\ opsLeft > 0
    /\ opsLeft' = opsLeft - 1
    /\ \A i \in sel : breakerView[i] # EmptyRow
    /\ IF ~cbFile.exists
       THEN /\ msg' = Msg("information", "No file", 0, NoPath)
            /\ UNCHANGED <<pc, cb>>
       ELSE \E ok \in BOOLEAN :
               LET data == ReadDoc(cbFile.text)
                   tools == ToolsOf(breakerView, sel)
                   closed == CloseTools(data, SortedTools(tools), now)
               IN  IF ~ok \/ data = ParseError
                   THEN msg' = CbError /\ UNCHANGED <<pc, cb>>
                   ELSE IF sel = {}
                   THEN /\ msg' = Msg("information", "Select", 0, NoPath)
                        /\ UNCHANGED <<pc, cb>>
                   ELSE IF closed = Raised
                   THEN msg' = CbError /\ UNCHANGED <<pc, cb>>
                   ELSE /\ pc' = "cb_open"
                        /\ cb' = [cb EXCEPT !.read = data, !.data = closed,
                                            !.tools = tools, !.t0 = now,
                                            !.out = DumpsDoc(closed)]
                        /\ UNCHANGED msg
    /\ UNCHANGED <<cbFile, breakerView, queueVars, now, metricVars, tailVars, sideVars>>

\* path.write_text(...): the open truncates the document
CbOpen ==
    /\ pc = "cb_open"
    /\ \E ok \in BOOLEAN :
          IF ok THEN /\ cbFile' = [exists |-> TRUE, text |-> <<>>]
                     /\ pc' = "cb_write"
                     /\ UNCHANGED <<msg, cb>>
          ELSE /\ msg' = CbError
               /\ pc' = "idle"
               /\ cb' = [NoCb EXCEPT !.seen = cb.seen]
               /\ UNCHANGED cbFile
    /\ UNCHANGED <<breakerView, queueVars, now, opsLeft, metricVars, tailVars, sideVars>>

\* a write that leaves alone a document the worker has put there meanwhile
CbWrite_KeepNewer ==
    /\ pc = "cb_write"
    /\ cbFile' = IF cbFile.text = <<>> THEN [exists |-> TRUE, text |-> cb.out]
                 ELSE cbFile
    /\ pc' = "cb_refresh"
    /\ UNCHANGED <<msg, cb>>
    /\ UNCHANGED <<breakerView, queueVars, now, opsLeft, metricVars, tailVars, sideVars>>

\* path.write_text(...): the write
CbWrite ==
    /\ pc = "cb_write"
    /\ \E ok \in BOOLEAN :
          IF ok THEN /\ cbFile' = [exists |-> TRUE, text |-> cb.out]
                     /\ pc' = "cb_refresh"
                     /\ UNCHANGED <<msg, cb>>
          ELSE /\ msg' = CbError
               /\ pc' = "idle"
               /\ cb' = [NoCb EXCEPT !.seen = cb.seen]
               /\ UNCHANGED cbFile
    /\ UNCHANGED <<breakerView, queueVars, now, opsLeft, metricVars, tailVars, sideVars>>

\* self.refresh_breakers() and return
CbRefresh ==
    /\ pc = "cb_refresh"
    /\ pc' = "idle"
    /\ \E ok \in BOOLEAN : RefreshView(ok)
    /\ UNCHANGED <<cbFile, queueVars, now, msg, opsLeft, metricVars, tailVars, sideVars>>

\* the worker, or whoever owns .state, replaces or removes the document
WorkerWritesBreakers(f) ==
    /\ f # cbFile
    /\ cbFile' = f
    /\ cb' = IF pc \in {"cb_open", "cb_write"}
             THEN [cb EXCEPT !.raced = TRUE]
             ELSE cb
    /\ UNCHANGED <<breakerView, queueVars, now, pc, msg, opsLeft,
                   metricVars, tailVars, sideVars>>

BreakerNext ==
    \/ RefreshBreakers
    \/ \E sel \in SUBSET (1..Len(breakerView)) : CbStart(sel)
    \/ CbOpen
    \/ CbWrite
    \/ CbRefresh

WorkerBreakerNext == \E f \in CbFiles : WorkerWritesBreakers(f)

\* MainWindow.__init__ ends with refresh_breakers()
InitBreakers ==
    /\ QueueEmpty(MaxOps)
    /\ MetricsIdle
    /\ TailIdle
    /\ SideIdle
    /\ \E f \in CbFiles, ok \in BOOLEAN :
          /\ cbFile = f
          /\ breakerView = BreakerRows(<<>>, f, ok)
          /\ cb = [NoCb EXCEPT !.seen = [file |-> f, ok |-> ok, before |-> <<>>]]

----------------------------------------------------------------------------
(* Ledger aggregator: MetricsTab.refresh_metrics *)

\* the JSON numbers that occur, with their values
NumVal ==
    ("0" :> 0) @@ ("1" :> 1) @@ ("2" :> 2) @@ ("2000" :> 2000)
    @@ ("30000" :> 30000) @@ ("45000" :> 45000) @@ ("700000" :> 700000)

\* isinstance(v, numbers.Real): numbers and booleans
IsReal(t) == t \in DOMAIN NumVal \/ t \in {"true", "false"}

\* int(v), float(v)
RealVal(t) == IF t = "true" THEN 1 ELSE IF t = "false" THEN 0 ELSE NumVal[t]

\* bool(v), "" standing for None
Truthy(t) == t \notin {"", "null", "false", "0"}

\* a quotient n / d, kept exact
Rat(n, d) == <<n, d>>

\* f"{x:.1f}": x in tenths, rounded to the nearest
Tenths(r) == (20 * r[1] + r[2]) \div (2 * r[2])

\* a record without attempt counted as attempt 1
AttemptOf_MissingAsOne(obj) == GetOr(obj, "attempt", "1")

\* obj.get("attempt", 0) before int(): the default is the number 0
AttemptOf(obj) == GetOr(obj, "attempt", "0")

\* the line raises in lines 246-248: obj has no get, or int() rejects attempt
BadShape(obj) == IsScalar(obj) \/ ~IsReal(AttemptOf(obj))

TaskAt(tasks, tid) ==
    IF \E i \in 1..Len(tasks) : tasks[i].id = tid
    THEN CHOOSE i \in 1..Len(tasks) : tasks[i].id = tid
    ELSE 0

\* a task keeps the tool of the first record seen for its id
AddRecord_FirstTool(tasks, obj) ==
    LET tid == GetOr(obj, "id", "unknown")
        tool == GetOr(obj, "tool", "unknown")
        attempt == RealVal(AttemptOf(obj))
        i == TaskAt(tasks, tid)
    IN  IF i = 0
        THEN Append(tasks, [id |-> tid, tool |-> tool, attempts |-> (attempt :> obj)])
        ELSE [tasks EXCEPT ![i] =
                 [id |-> tid, tool |-> tasks[i].tool,
                  attempts |-> (attempt :> obj) @@ tasks[i].attempts]]

\* rec = tasks.setdefault(tid, ...); rec["tool"] = tool;
\* rec["attempts"][attempt] = obj
AddRecord(tasks, obj) ==
    LET tid == GetOr(obj, "id", "unknown")
        tool == GetOr(obj, "tool", "unknown")
        attempt == RealVal(AttemptOf(obj))
        i == TaskAt(tasks, tid)
    IN  IF i = 0
        THEN Append(tasks, [id |-> tid, tool |-> tool, attempts |-> (attempt :> obj)])
        ELSE [tasks EXCEPT ![i] =
                 [id |-> tid, tool |-> tool,
                  attempts |-> (attempt :> obj) @@ tasks[i].attempts]]

\* for ln in lines: ... (238-251); raised when a line raises outside the try
RECURSIVE FoldLedger(_, _)
FoldLedger(lines, tasks) ==
    IF lines = <<>> THEN [raised |-> FALSE, tasks |-> tasks]
    ELSE LET obj == JsonLoads(lines[1])
         IN  IF IsBlank(lines[1]) \/ obj = ParseError
             THEN FoldLedger(Tail(lines), tasks)
             ELSE IF BadShape(obj) THEN [raised |-> TRUE, tasks |-> tasks]
             ELSE FoldLedger(Tail(lines), AddRecord(tasks, obj))

\* a final outcome taken from the first attempt the task made
FinalOf_FirstAttempt(rec) ==
    rec.attempts[CHOOSE k \in DOMAIN rec.attempts :
                     \A j \in DOMAIN rec.attempts : k <= j]

\* last_attempt = max(rec["attempts"].keys()); final = rec["attempts"][last_attempt]
FinalOf(rec) ==
    rec.attempts[CHOOSE k \in DOMAIN rec.attempts :
                     \A j \in DOMAIN rec.attempts : j <= k]

\* the final outcomes in the order of tasks.values()
Finals(tasks) == [i \in 1..Len(tasks) |-> FinalOf(tasks[i])]

\* success: the finals with bool(final.get("ok"))
SuccessCount(finals) ==
    Cardinality({i \in 1..Len(finals) : Truthy(Get(finals[i], "ok"))})

\* durations that count a final outcome without duration_ms as zero seconds
RECURSIVE Durations_MissingAsZero(_)
Durations_MissingAsZero(finals) ==
    IF finals = <<>> THEN <<>>
    ELSE <<Rat(IF IsReal(Get(finals[1], "duration_ms"))
               THEN RealVal(Get(finals[1], "duration_ms")) ELSE 0, 1000)>>
         \o Durations_MissingAsZero(Tail(finals))

\* durations: float(duration_ms) / 1000.0 of the finals that have a number
RECURSIVE Durations(_)
Durations(finals) ==
    IF finals = <<>> THEN <<>>
    ELSE (IF IsReal(Get(finals[1], "duration_ms"))
          THEN <<Rat(RealVal(Get(finals[1], "duration_ms")), 1000)>>
          ELSE <<>>)
         \o Durations(Tail(finals))

RECURSIVE SumNum(_)
SumNum(rs) == IF rs = <<>> THEN 0 ELSE rs[1][1] + SumNum(Tail(rs))

\* a rate that divides by the number of successes
SuccessRate_OverSuccesses(success, total) ==
    IF success # 0 THEN Rat(success * 100, success) ELSE Rat(0, 1)

\* (success / total * 100) if total else 0.0
SuccessRate(success, total) ==
    IF total # 0 THEN Rat(success * 100, total) ELSE Rat(0, 1)

\* (sum(durations) / len(durations)) if durations else 0.0
AvgDuration(durs) ==
    IF durs # <<>> THEN Rat(SumNum(durs), 1000 * Len(durs)) ELSE Rat(0, 1)

StatAt(stats, tool) ==
    IF \E i \in 1..Len(stats) : stats[i][1] = tool
    THEN CHOOSE i \in 1..Len(stats) : stats[i][1] = tool
    ELSE 0

\* stats = tool_stats.setdefault(tool, ...); stats["total"] += 1; ...
RECURSIVE ToolStats(_, _)
ToolStats(tasks, stats) ==
    IF tasks = <<>> THEN stats
    ELSE LET tool == tasks[1].tool
             ok == Truthy(Get(FinalOf(tasks[1]), "ok"))
             i == StatAt(stats, tool)
             old == IF i = 0 THEN [total |-> 0, success |-> 0] ELSE stats[i][2]
             new == [total |-> old.total + 1,
                     success |-> old.success + (IF ok THEN 1 ELSE 0)]
         IN  ToolStats(Tail(tasks),
                       IF i = 0 THEN Append(stats, <<tool, new>>)
                       ELSE [stats EXCEPT ![i] = <<tool, new>>])

\* buckets = [0, 30, 60, 120, 300, 600]
Buckets == <<0, 30, 60, 120, 300, 600>>

\* the labels of the bars, in the order of counts
HistLabels == <<"<=30s", "<=60s", "<=120s", "<=300s", "<=600s", ">600s">>

\* duration <= limit
RatLe(r, limit) == r[1] <= limit * r[2]

\* the index whose count the duration raises: the first bucket it does not
\* exceed, counts[-1] when there is none
PlaceOf(d) ==
    IF \E i \in 1..Len(Buckets) : RatLe(d, Buckets[i])
    THEN CHOOSE i \in 1..Len(Buckets) :
             /\ RatLe(d, Buckets[i])
             /\ \A j \in 1..(i - 1) : ~RatLe(d, Buckets[j])
    ELSE Len(Buckets)

\* counts after the loop over durations
HistCounts(durs) ==
    [i \in 1..Len(Buckets) |->
        Cardinality({k \in 1..Len(durs) : PlaceOf(durs[k]) = i})]

\* everything refresh_metrics computes from the lines it read
Aggregate(lines) ==
    LET fold == FoldLedger(lines, <<>>)
        tasks == fold.tasks
        finals == Finals(tasks)
        total == Len(tasks)
        success == SuccessCount(finals)
        durs == Durations(finals)
        rate == SuccessRate(success, total)
        avg == AvgDuration(durs)
    IN  IF fold.raised
        THEN [NoMetrics EXCEPT !.status = "aborted", !.read = lines]
        ELSE [status |-> "ok", total |-> total, success |-> success,
              success_rate |-> rate, avg_duration |-> avg,
              summary |-> <<total, Tenths(rate), Tenths(avg)>>,
              durations |-> durs, tool_stats |-> ToolStats(tasks, <<>>),
              counts |-> HistCounts(durs),
              finals |-> [i \in 1..Len(tasks) |-> <<tasks[i].id, finals[i]>>],
              read |-> lines]

\* refresh_metrics: an exception leaves the tab as it was
RefreshMetrics ==
    /\ IF ~ledger.exists
       THEN metrics' = [metrics EXCEPT !.status = "notfound", !.read = <<>>]
       ELSE \E ok \in BOOLEAN :
               IF ~ok
               THEN metrics' = [metrics EXCEPT !.status = "readerror", !.read = <<>>]
               ELSE IF Aggregate(ledger.lines).status = "aborted"
               THEN metrics' = [metrics EXCEPT !.status = "aborted",
                                               !.read = ledger.lines]
               ELSE metrics' = Aggregate(ledger.lines)
    /\ UNCHANGED <<ledger, queueVars, now, pc, msg, opsLeft, breakerVars, tailVars, sideVars>>

\* one record of the ledger; "" leaves attempt or duration_ms out
LedgerRec(id, tool, attempt, ok, dur) ==
    JsonDumps(<<<<"id", id>>, <<"tool", tool>>>>
              \o (IF attempt = "" THEN <<>> ELSE <<<<"attempt", attempt>>>>)
              \o <<<<"ok", ok>>>>
              \o (IF dur = "" THEN <<>> ELSE <<<<"duration_ms", dur>>>>))

\* the lines the worker may append: attempts of task 1 and task 2, with and
\* without attempt and duration, and lines that are no record
LedgerLines ==
    {LedgerRec("1", "git", "0", "false", "30000"),
     LedgerRec("1", "git", "1", "true", "2000"),
     LedgerRec("1", "aider", "1", "false", ""),
     LedgerRec("2", "aider", "", "true", "700000"),
     LedgerRec("1", "aider", "", "true", "2000"),
     LedgerRec("2", "aider", "2", "true", "45000"),
     LedgerRec("2", "aider", "x", "true", "2000"),
     <<"{", "bad">>, <<" ">>, <<"5">>}

\* the worker appends one line to ledger.jsonl
WorkerAppends(line) ==
    /\ Len(ledger.lines) < MaxLedger
    /\ ledger' = [exists |-> TRUE, lines |-> Append(ledger.lines, line)]
    /\ UNCHANGED <<metrics, queueVars, now, pc, msg, opsLeft, breakerVars, tailVars, sideVars>>

WorkerLedgerNext == \E line \in LedgerLines : WorkerAppends(line)

InitMetrics ==
    /\ QueueEmpty(MaxOps)
    /\ BreakersIdle
    /\ TailIdle
    /\ SideIdle
    /\ MetricsIdle

----------------------------------------------------------------------------
(* Log tailer: LogTailer._poll *)

NL == "\n"

\* the index of the first newline of chunk, 0 when it has none
RECURSIVE NewlineAt(_, _)
NewlineAt(chunk, k) ==
    IF k > Len(chunk) THEN 0
    ELSE IF chunk[k] = NL THEN k
    ELSE NewlineAt(chunk, k + 1)

\* chunk.splitlines(): the lines without their newline, a last line that has
\* none included
RECURSIVE SplitLines(_)
SplitLines(chunk) ==
    IF chunk = <<>> THEN <<>>
    ELSE LET k == NewlineAt(chunk, 1)
         IN  IF k = 0 THEN <<chunk>>
             ELSE <<SubSeq(chunk, 1, k - 1)>>
                  \o SplitLines(SubSeq(chunk, k + 1, Len(chunk)))

\* ln.rstrip()
RECURSIVE RStrip(_)
RStrip(line) ==
    IF line = <<>> THEN <<>>
    ELSE IF line[Len(line)] = " " THEN RStrip(SubSeq(line, 1, Len(line) - 1))
    ELSE line

\* a batch that keeps the blank lines
Batch_AllLines(chunk) ==
    [i \in 1..Len(SplitLines(chunk)) |-> RStrip(SplitLines(chunk)[i])]

\* [ln.rstrip() for ln in chunk.splitlines() if ln.strip()]
Batch(chunk) ==
    LET kept == SelectSeq(SplitLines(chunk), LAMBDA ln : ~IsBlank(ln))
    IN  [i \in 1..Len(kept) |-> RStrip(kept[i])]

\* a read that starts at the beginning of the file whatever the position
ReadChunk_FromStart(data, pos) == data

\* f.seek(self._pos); chunk = f.read()
ReadChunk(data, pos) == SubSeq(data, pos + 1, Len(data))

\* f.tell() after the read
TellAfter(data, pos) == IF pos > Len(data) THEN pos ELSE Len(data)

\* a test that looks at the size only
Replaced_SizeOnly(stored, inode, size, pos) == size < pos

\* self._inode != inode or st.st_size < self._pos
Replaced(stored, inode, size, pos) == stored # inode \/ size < pos

\* _poll up to the open: exists, stat, the rotation / truncation test
PollStat ==
    /\ tailer.pc = "idle"
    /\ LET found == [pos |-> tailer.pos, inode |-> tailer.inode, cuts |-> logf.cuts]
       IN  IF ~logf.exists
           THEN tailer' = [tailer EXCEPT !.last = "absent", !.before = found,
                                         !.cutsSeen = logf.cuts]
           ELSE \E ok \in BOOLEAN :
                   IF ~ok
                   THEN tailer' = [tailer EXCEPT !.last = "error", !.before = found,
                                                 !.cutsSeen = logf.cuts]
                   ELSE IF Replaced(tailer.inode, logf.ino, Len(logf.data), tailer.pos)
                   THEN tailer' = [tailer EXCEPT !.pos = 0, !.inode = logf.ino,
                                                 !.pc = "read", !.before = found]
                   ELSE tailer' = [tailer EXCEPT !.pc = "read", !.before = found]
    /\ UNCHANGED <<logf, emitted, queueVars, now, pc, msg, opsLeft,
                   breakerVars, metricVars, sideVars>>

\* _poll from the open: seek, read, tell, split and emit
PollRead ==
    /\ tailer.pc = "read"
    /\ \E ok \in BOOLEAN :
          IF ~ok \/ ~logf.exists
          THEN /\ tailer' = [tailer EXCEPT !.pc = "idle", !.last = "error",
                                            !.cutsSeen = logf.cuts]
               /\ UNCHANGED emitted
          ELSE LET chunk == ReadChunk(logf.data, tailer.pos)
               IN  /\ tailer' = [tailer EXCEPT
                                    !.pos = TellAfter(logf.data, tailer.pos),
                                    !.pc = "idle", !.last = "ok",
                                    !.linesSeen = Len(logf.lines),
                                    !.cutsSeen = logf.cuts]
                   /\ emitted' = IF Batch(chunk) # <<>>
                                 THEN Append(emitted, Batch(chunk))
                                 ELSE emitted
    /\ UNCHANGED <<logf, queueVars, now, pc, msg, opsLeft, breakerVars, metricVars, sideVars>>

\* the characters after the last newline of data: a line not yet ended
RECURSIVE OpenLine(_)
OpenLine(data) ==
    IF data = <<>> \/ data[Len(data)] = NL THEN <<>>
    ELSE Append(OpenLine(SubSeq(data, 1, Len(data) - 1)), data[Len(data)])

\* the lines the worker logs: plain, with trailing blanks, blank
LogLines == {<<"a">>, <<"b", " ">>, <<" ">>}

\* the worker appends one complete line, creating the file when it is absent;
\* the first file holds up to MaxLog lines, each later one two lines fewer
WorkerLogs(line) ==
    /\ Len(logf.lines) < MaxLog - (IF logf.ino > 1 THEN 2 * (logf.ino - 1) ELSE 0)
    /\ logf' = [exists |-> TRUE,
                ino |-> IF logf.exists THEN logf.ino ELSE logf.ino + 1,
                data |-> logf.data \o line \o <<NL>>,
                lines |-> Append(logf.lines, OpenLine(logf.data) \o line),
                cuts |-> logf.cuts]
    /\ UNCHANGED <<tailer, emitted, queueVars, now, pc, msg, opsLeft,
                   breakerVars, metricVars, sideVars>>

WorkerLogNext == \E line \in LogLines : WorkerLogs(line)

\* the worker writes the beginning of a line and ends the line in a later
\* write
WorkerLogsPart ==
    /\ logf.exists
    /\ Len(logf.lines) < MaxLog
    /\ OpenLine(logf.data) = <<>>
    /\ logf' = [logf EXCEPT !.data = @ \o <<"a">>]
    /\ UNCHANGED <<tailer, emitted, queueVars, now, pc, msg, opsLeft,
                   breakerVars, metricVars, sideVars>>

\* the log is opened for writing anew: the same file, emptied
TruncateLog ==
    /\ logf.exists
    /\ logf.cuts < MaxCuts
    /\ logf' = [logf EXCEPT !.data = <<>>, !.lines = <<>>, !.cuts = @ + 1]
    /\ UNCHANGED <<tailer, emitted, queueVars, now, pc, msg, opsLeft,
                   breakerVars, metricVars, sideVars>>

\* the log is rotated: the file is renamed away and the path stays empty until
\* the worker logs again, into a new file; ino keeps the number of the file
\* that left, the next file gets another one
RotateLog ==
    /\ logf.exists
    /\ logf.ino <= MaxRotations
    /\ logf' = [logf EXCEPT !.exists = FALSE, !.data = <<>>, !.lines = <<>>]
    /\ UNCHANGED <<tailer, emitted, queueVars, now, pc, msg, opsLeft,
                   breakerVars, metricVars, sideVars>>

InitTail ==
    /\ QueueEmpty(MaxOps)
    /\ BreakersIdle
    /\ MetricsIdle
    /\ TailIdle
    /\ SideIdle

----------------------------------------------------------------------------
(* Template catalog: TemplatesModel.load and TemplatesModel.builtin *)

\* a parsed list is <<<<"list", elements>>>>, a parsed string <<<<"scalar", s>>>>,
\* a parsed object its <<key, value>> pairs
ListOf(elems) == <<<<"list", elems>>>>

IsList(v) == v # <<>> /\ v[1][1] = "list"

IsObject(v) == v # ParseError /\ ~IsScalar(v) /\ ~IsList(v)

\* value ::= string | { members } | [ elements ], read from position k on; the
\* result is [v, k], the value and the position after it, v being ParseError
\* when the text is no JSON. A repeated key keeps its place and takes the
\* later value.
RECURSIVE ParseValue(_, _), ParseMembers(_, _, _), ParseElements(_, _, _)
ParseValue(toks, k) ==
    IF k > Len(toks) THEN [v |-> ParseError, k |-> k]
    ELSE IF toks[k] = "{"
    THEN IF k < Len(toks) /\ toks[k + 1] = "}" THEN [v |-> <<>>, k |-> k + 2]
         ELSE ParseMembers(toks, k + 1, <<>>)
    ELSE IF toks[k] = "["
    THEN IF k < Len(toks) /\ toks[k + 1] = "]" THEN [v |-> ListOf(<<>>), k |-> k + 2]
         ELSE ParseElements(toks, k + 1, <<>>)
    ELSE IF IsStr(toks[k]) THEN [v |-> <<<<"scalar", toks[k]>>>>, k |-> k + 1]
    ELSE [v |-> ParseError, k |-> k]

ParseMembers(toks, k, acc) ==
    IF k + 1 > Len(toks) \/ ~IsStr(toks[k]) \/ toks[k + 1] # ":"
    THEN [v |-> ParseError, k |-> k]
    ELSE LET r == ParseValue(toks, k + 2)
         IN  IF r.v = ParseError \/ r.k > Len(toks) THEN [v |-> ParseError, k |-> k]
             ELSE IF toks[r.k] = "}" THEN [v |-> Set(acc, toks[k], r.v), k |-> r.k + 1]
             ELSE IF toks[r.k] = ","
             THEN ParseMembers(toks, r.k + 1, Set(acc, toks[k], r.v))
             ELSE [v |-> ParseError, k |-> k]

ParseElements(toks, k, acc) ==
    LET r == ParseValue(toks, k)
    IN  IF r.v = ParseError \/ r.k > Len(toks) THEN [v |-> ParseError, k |-> k]
        ELSE IF toks[r.k] = "]" THEN [v |-> ListOf(Append(acc, r.v)), k |-> r.k + 1]
        ELSE IF toks[r.k] = "," THEN ParseElements(toks, r.k + 1, Append(acc, r.v))
        ELSE [v |-> ParseError, k |-> k]

\* json.load(open(path)): the parsed document, ParseError when it raises
JsonLoad(text) ==
    LET toks == SelectSeq(text, LAMBDA t : t # " ")
        r == ParseValue(toks, 1)
    IN  IF r.v = ParseError \/ r.k # Len(toks) + 1 THEN ParseError ELSE r.v

\* a comprehension that passes over the items that are no objects
RECURSIVE FromList_SkipOthers(_, _, _)
FromList_SkipOthers(items, i, acc) ==
    IF i > Len(items) THEN acc
    ELSE IF ~IsObject(items[i]) THEN FromList_SkipOthers(items, i + 1, acc)
    ELSE LET name == GetOr(items[i], "name",
                           <<<<"scalar", "Template " \o ToString(i)>>>>)
         IN  IF ~IsScalar(name) THEN ParseError
             ELSE FromList_SkipOthers(items, i + 1,
                           Set(acc, name[1][2], GetOr(items[i], "task", <<>>)))

\* a list loader that numbers the unnamed items from 0
RECURSIVE FromList_ZeroBased(_, _, _)
FromList_ZeroBased(items, i, acc) ==
    IF i > Len(items) THEN acc
    ELSE IF ~IsObject(items[i]) THEN ParseError
    ELSE LET name == GetOr(items[i], "name",
                           <<<<"scalar", "Template " \o ToString(i - 1)>>>>)
         IN  IF ~IsScalar(name) THEN ParseError
             ELSE FromList_ZeroBased(items, i + 1,
                                     Set(acc, name[1][2], GetOr(items[i], "task", <<>>)))

\* {item.get("name", f"Template {i + 1}"): item.get("task", {})
\*  for i, item in enumerate(data)}, from the i-th item on and added to acc;
\* ParseError when it raises: an item that is no dict has no get, a name that
\* is a dict or a list cannot be a key
RECURSIVE FromList(_, _, _)
FromList(items, i, acc) ==
    IF i > Len(items) THEN acc
    ELSE IF ~IsObject(items[i]) THEN ParseError
    ELSE LET name == GetOr(items[i], "name",
                           <<<<"scalar", "Template " \o ToString(i)>>>>)
         IN  IF ~IsScalar(name) THEN ParseError
             ELSE FromList(items, i + 1,
                           Set(acc, name[1][2], GetOr(items[i], "task", <<>>)))

\* a loader that adds the document to the catalog it finds
Loaded_Merge(old, data) ==
    IF IsList(data) THEN FromList(data[1][2], 1, old)
    ELSE IF IsObject(data) THEN old \o data
    ELSE old

\* self.templates after the isinstance tests of load: the catalog of a list,
\* the object itself, the old catalog for anything else; ParseError when the
\* comprehension raises
Loaded(old, data) ==
    IF IsList(data) THEN FromList(data[1][2], 1, <<>>)
    ELSE IF IsObject(data) THEN data
    ELSE old

\* load(path): a document that cannot be opened, read or parsed, or whose
\* items cannot be read, leaves the model as it is; otherwise changed is emitted
LoadTemplates(text) ==
    /\ templates.ops < MaxLoads
    /\ \E ok \in BOOLEAN :
          LET data == IF ok THEN JsonLoad(text) ELSE ParseError
              new == IF data = ParseError THEN ParseError
                     ELSE Loaded(templates.templates, data)
          IN  templates' =
                  IF new = ParseError
                  THEN [templates EXCEPT !.ops = @ + 1, !.doc = text,
                                         !.before = templates.templates,
                                         !.last = "failed"]
                  ELSE [templates EXCEPT !.templates = new, !.changed = @ + 1,
                                         !.ops = @ + 1, !.doc = text,
                                         !.before = templates.templates,
                                         !.last = "loaded"]
    /\ UNCHANGED <<hbFile, status, queueVars, now, pc, msg, opsLeft,
                   breakerVars, metricVars, tailVars>>

\* the dict literal of builtin()
BuiltinText ==
    <<"{", "Git: fetch + prune", ":",
           "{", "tool", ":", "git", ",",
                "args", ":", "[", "fetch", ",", "--all", ",", "--prune", "]", "}", ",",
           "Git: status -sb", ":",
           "{", "tool", ":", "git", ",", "args", ":", "[", "status", ",", "-sb", "]", "}", ",",
           "Quality Gate", ":",
           "{", "tool", ":", "pwsh", ",",
                "args", ":", "[", "-NoProfile", ",", "-File", ",",
                                   "scripts/run_quality.ps1", "]", ",",
                "timeout_sec", ":", "1800", "}", ",",
           "Aider: refactor stub", ":",
           "{", "tool", ":", "aider", ",", "flags", ":", "[", "--yes", "]", ",",
                "prompt", ":", "Refactor module for better dependency injection.", ",",
                "timeout_sec", ":", "1200", "}",
      "}">>

Builtin == JsonLoad(BuiltinText)

\* builtin()
BuiltinSeed ==
    /\ templates.ops < MaxLoads
    /\ templates' = [templates EXCEPT !.templates = Builtin, !.changed = @ + 1,
                                      !.ops = @ + 1, !.doc = <<>>,
                                      !.before = templates.templates,
                                      !.last = "builtin"]
    /\ UNCHANGED <<hbFile, status, queueVars, now, pc, msg, opsLeft,
                   breakerVars, metricVars, tailVars>>

TaskText(tool) == <<"{", "tool", ":", tool, "}">>

ItemText(name, tool) ==
    <<"{", "name", ":", name, ",", "task", ":">> \o TaskText(tool) \o <<"}">>

\* the documents the operator may pick: lists (with an unnamed item, with a
\* name twice, with an item without task, with a second item that is no object),
\* objects name -> task, the {templates: [...]} wrapper, a number, no JSON
TemplateDocs ==
    {<<"[">> \o ItemText("Custom", "git")
         \o <<",", "{", "task", ":">> \o TaskText("pwsh") \o <<"}", "]">>,
     <<"[">> \o ItemText("Custom", "git") \o <<",">>
         \o ItemText("Custom", "aider") \o <<"]">>,
     <<"[", "{", "name", ":", "Bare", "}", "]">>,
     <<"[">> \o ItemText("Custom", "git") \o <<",", "x", "]">>,
     <<"{", "Custom", ":">> \o TaskText("git")
         \o <<",", "Python", ":">> \o TaskText("python") \o <<"}">>,
     <<"{", "Other", ":">> \o TaskText("aider") \o <<"}">>,
     <<"{", "templates", ":", "[">> \o ItemText("Custom", "git") \o <<"]", "}">>,
     <<"5">>,
     <<"{", "bad">>}

TemplatesNext == BuiltinSeed \/ \E text \in TemplateDocs : LoadTemplates(text)

\* MainWindow as constructed, before builtin() and before any timer fires
InitSide ==
    /\ QueueEmpty(MaxOps)
    /\ BreakersIdle
    /\ MetricsIdle
    /\ TailIdle
    /\ SideIdle

----------------------------------------------------------------------------
(* Heartbeat: MainWindow.check_heartbeat *)

\* active=age <= 10
StaleAfter == 10

\* the moments the worker may have stamped, in seconds of the model's clock
HbTimes == {-10, -9, -8, 1, 3}

\* datetime.fromisoformat(ts_raw.replace("Z", "+00:00")), in UTC: the moments
\* the stamp denotes, none when fromisoformat raises
ParsedTime(ts_raw) ==
    {k \in HbTimes : ts_raw \in {Isoformat(k), Isoformat(k) \o "Z"}}

Unreadable == [text |-> "Heartbeat: unreadable", active |-> FALSE]

\* a check that takes a heartbeat of exactly ten seconds for stale
HeartbeatStatus_StrictAge(data, t) ==
    IF ~IsDict(data) \/ ParsedTime(GetOr(data, "timestamp", "")) = {}
    THEN Unreadable
    ELSE LET age == t - (CHOOSE k \in ParsedTime(Get(data, "timestamp")) : TRUE)
         IN  [text |-> "Heartbeat: " \o ToString(age) \o "s ago  |  PID "
                          \o GetOr(data, "pid", "?"),
              active |-> age < StaleAfter]

\* the try block of check_heartbeat, data being the parsed document or
\* ParseError when the read or json.loads raised: label and tray icon
HeartbeatStatus(data, t) ==
    IF ~IsDict(data) THEN Unreadable
    ELSE IF GetOr(data, "timestamp", "") = "" THEN Unreadable
    ELSE IF ParsedTime(Get(data, "timestamp")) = {} THEN Unreadable
    ELSE LET age == t - (CHOOSE k \in ParsedTime(Get(data, "timestamp")) : TRUE)
         IN  [text |-> "Heartbeat: " \o ToString(age) \o "s ago  |  PID "
                          \o GetOr(data, "pid", "?"),
              active |-> age <= StaleAfter]

\* check_heartbeat
CheckHeartbeat ==
    /\ \E ok \in BOOLEAN :
          LET shown == IF ~hbFile.exists
                       THEN [text |-> "No heartbeat", active |-> FALSE]
                       ELSE HeartbeatStatus(IF ok THEN JsonLoads(hbFile.text)
                                            ELSE ParseError, now)
          IN  status' = [text |-> shown.text, active |-> shown.active,
                         seen |-> [checked |-> TRUE, file |-> hbFile, t |-> now,
                                   ok |-> ok \/ ~hbFile.exists]]
    /\ UNCHANGED <<hbFile, templates, queueVars, now, pc, msg, opsLeft,
                   breakerVars, metricVars, tailVars>>

HbDoc(ts, pid) == <<"{", "timestamp", ":", ts, ",", "pid", ":", pid, "}">>

\* the heartbeat documents the worker may leave: stamped (one with the Z of
\* UTC), without pid, without timestamp, with an empty or a foreign
\* timestamp, a number, no JSON
HbTexts ==
    {HbDoc(Isoformat(k), "4321") : k \in HbTimes}
    \cup {HbDoc(Isoformat(1) \o "Z", "4321"),
          <<"{", "timestamp", ":", Isoformat(1), "}">>,
          <<"{", "pid", ":", "4321", "}">>,
          HbDoc("", "4321"),
          HbDoc("yesterday", "4321"),
          <<"5">>,
          <<"{", "bad">>}

\* the worker rewrites its heartbeat, or the document is removed
WorkerBeats ==
    /\ \/ \E text \in HbTexts : hbFile' = [exists |-> TRUE, text |-> text]
       \/ hbFile' = NoHbFile
    /\ UNCHANGED <<status, templates, queueVars, now, pc, msg, opsLeft,
                   breakerVars, metricVars, tailVars>>

----------------------------------------------------------------------------
(* The external worker and the clock *)

\* the worker takes a file out of inbox: done, or moved to failed / quarantine
WorkerDrain(name, dest) ==
    /\ Exists(fs, "inbox", name)
    /\ IF dest = "done"
       THEN fs' = Remove(fs, "inbox", name)
       ELSE /\ ~Exists(fs, dest, name)
            /\ fs' = Rename(fs, "inbox", name, dest, name)
    /\ UNCHANGED <<nextIno, now, failedList, quarantineList, pc, loc, msg, opsLeft, panelVars>>

Tick ==
    /\ now < MaxTime
    /\ now' = now + 1
    /\ UNCHANGED <<fs, nextIno, failedList, quarantineList, pc, loc, msg, opsLeft, panelVars>>

EnqueueNext ==
    \/ \E e \in Envelopes : EnqueueStart(e)
    \/ EnqOpen
    \/ EnqWrite

RetryNext ==
    \/ RetryAllStart
    \/ RetryAllStep
    \/ RetryAllDone
    \/ \E i \in 0..Len(failedList), j \in 0..Len(quarantineList) : RetrySelStart(i, j)
    \/ RetrySelStep
    \/ RetrySelDone

DeleteNext ==
    \/ \E i \in 0..Len(failedList), j \in 0..Len(quarantineList) : DeleteStart(i, j)
    \/ DeleteStep
    \/ DeleteDone

EditNext ==
    \/ \E i \in 0..Len(failedList), j \in 0..Len(quarantineList) : EditStart(i, j)
    \/ EditCancel
    \/ \E text \in EditTexts : EditAccept(text)
    \/ EditOpen
    \/ EditWrite
    \/ EditBackup
    \/ EditDone

WorkerNext ==
    \E name \in DOMAIN fs["inbox"], dest \in {"done", "failed", "quarantine"} :
        WorkerDrain(name, dest)

\* the whole control surface next to the worker
Next ==
    \/ EnqueueNext
    \/ RefreshDlq
    \/ RetryNext
    \/ DeleteNext
    \/ EditNext
    \/ WorkerNext
    \/ Tick

Spec == Init /\ [][Next]_vars

\* the operator only enqueues
SpecEnqueue == Init /\ [][EnqueueNext \/ WorkerNext \/ Tick]_vars

\* the operator only refreshes and retries
SpecRetry == Init /\ [][RefreshDlq \/ RetryNext \/ WorkerNext]_vars

\* the operator only refreshes, retries all and deletes
SpecDelete ==
    Init /\ [][RefreshDlq \/ RetryAllStart \/ RetryAllStep \/ RetryAllDone
                 \/ DeleteNext \/ WorkerNext]_vars

\* the breakers tab next to the worker
SpecBreakers == InitBreakers /\ [][BreakerNext \/ WorkerBreakerNext \/ Tick]_vars

\* the metrics tab next to the worker appending to the ledger
SpecMetrics == InitMetrics /\ [][RefreshMetrics \/ WorkerLedgerNext]_vars

\* the tailer polling a log that only grows by whole lines
SpecTailGrow == InitTail /\ [][PollStat \/ PollRead \/ WorkerLogNext]_vars

\* the log tailer next to a worker that also starts its log anew
SpecTailTruncate ==
    InitTail /\ [][PollStat \/ PollRead \/ WorkerLogNext \/ TruncateLog]_vars

\* the tailer polling a log that grows by lines written in one or two writes
SpecTailPartial ==
    InitTail /\ [][PollStat \/ PollRead \/ WorkerLogNext \/ WorkerLogsPart]_vars

\* the log tailer next to a worker whose log is rotated
SpecTailRotate ==
    InitTail /\ [][PollStat \/ PollRead \/ WorkerLogNext \/ RotateLog]_vars

\* the operator only refreshes and edits
SpecTemplates == InitSide /\ [][TemplatesNext]_vars

SpecHeartbeat == InitSide /\ [][CheckHeartbeat \/ WorkerBeats \/ Tick]_vars

SpecEdit == InitEdit /\ [][RefreshDlq \/ EditNext \/ WorkerNext \/ Tick]_vars

----------------------------------------------------------------------------
(* Properties *)

DLQ == {"failed", "quarantine"}

RetryLoops == {"retry_loop", "retryall_loop"}

\* the GUI thread runs one iteration of a retry loop
RetryIteration ==
    /\ pc \in RetryLoops
    /\ loc.items # <<>>
    /\ loc'.items = Tail(loc.items)

\* the write of enqueue_task_dict returns
EnqueueReturns == pc = "enq_write" /\ pc' = "idle"

\* C1: every file task_<id>.jsonl visible in inbox holds the complete
\* serialized envelope, in every state reachable while enqueue interleaves
\* with the worker
C1_InboxFilesComplete ==
    \A n \in DOMAIN fs["inbox"] :
        n[1] = "task_" =>
            LET data == fs["inbox"][n].data
            IN  /\ Len(data) = 1
                /\ JsonValid(data[1])
                /\ Get(JsonLoads(data[1]), "id") = n[2]

EnqueueWroteInbox == EnqueueReturns /\ Links(fs, loc.ino) = {loc.path}

\* what enqueue's file parses to once written
EnqueuedParsed == JsonLoads(fs'["inbox"][loc.path[2]].data[1])

\* the written file is one line that parses to the submitted envelope except
\* for id, and is named task_<id>.jsonl after the id it holds
EnqueuedRoundTrips ==
    /\ Len(fs'["inbox"][loc.path[2]].data) = 1
    /\ EnqueuedParsed # ParseError
    /\ DictEqExcept(EnqueuedParsed, loc.task0, "id")
    /\ Has(EnqueuedParsed, "id")
    /\ loc.path[2] = TaskName(Get(EnqueuedParsed, "id"))

\* C4 as stated: the file written by enqueue(e) parses to e except for id,
\* and the id is e's own whenever e carried one
C4_IdKeptWhenCarried ==
    [][EnqueueWroteInbox =>
          /\ EnqueuedRoundTrips
          /\ Has(loc.task0, "id") =>
                Get(EnqueuedParsed, "id") = Get(loc.task0, "id")]_vars

\* C4 amended: the file written by enqueue(e) parses to e except for id; the
\* id is e's own when e carried a non-empty one, and otherwise (absent or
\* empty) the timestamp-derived id that also names the file
C4_RoundTripModuloId ==
    [][EnqueueWroteInbox =>
          /\ EnqueuedRoundTrips
          /\ IF Has(loc.task0, "id") /\ Get(loc.task0, "id") # ""
             THEN Get(EnqueuedParsed, "id") = Get(loc.task0, "id")
             ELSE \E t \in 1..now : Get(EnqueuedParsed, "id") = Strftime(t)]_vars

C4_Witness ==
    /\ pc = "idle"
    /\ msg.title = "Queued"
    /\ Exists(fs, "inbox", msg.path[2])
    /\ LET data == fs["inbox"][msg.path[2]].data
       IN  /\ Len(data) = 1
           /\ Get(JsonLoads(data[1]), "id") = Strftime(now)
           /\ Get(JsonLoads(data[1]), "tool") = "git"

\* some non-blank line of the text is not JSON
HasInvalidLine(text) ==
    \E k \in 1..Len(text) : ~IsBlank(text[k]) /\ ~JsonValid(text[k])

EditWriting == {"edit_open", "edit_write", "edit_backup", "edit_done"}

\* C5: accepting a text with any non-blank line that is not JSON (whatever
\* the lines before it) changes no file - nothing in inbox, no .bak, the
\* original as it was - and ends the handler with the error shown; the
\* handler only ever goes on to write lines that each parse
C5_InvalidEditWritesNothing ==
    /\ [][\A text \in EditTexts :
             EditAccept(text) /\ HasInvalidLine(text) =>
                 /\ fs' = fs
                 /\ pc' = "idle"
                 /\ msg' = Msg("critical", "Invalid JSON", 0, NoPath)]_vars
    /\ [](pc \in EditWriting =>
             \A k \in 1..Len(loc.lines) :
                 ~IsBlank(loc.lines[k]) /\ JsonValid(loc.lines[k]))

C5_Witness ==
    /\ pc = "idle"
    /\ msg.title = "Invalid JSON"
    /\ \E d \in DLQ : DOMAIN fs[d] # {}
    /\ \A d \in Dirs : \A n \in DOMAIN fs[d] :
          n[1] # "edited_" /\ n[Len(n)] # ".bak"

\* the inode of the file the editor was opened on
EditedOriginal == CHOOSE k \in loc.snap : TRUE

CountOf(log, kinds) == Cardinality({i \in 1..Len(log) : log[i][3] \in kinds})

\* C7: retry_all moves no file twice in one call, and moves only files that
\* were in failed or quarantine when the call listed them: what the worker
\* adds afterwards stays where it is
C7_RetryAllAtMostOnce ==
    pc = "retryall_loop" =>
        /\ \A i, j \in 1..Len(loc.log) :
              i # j /\ loc.log[i][3] = "moved" /\ loc.log[j][3] = "moved" =>
                  loc.log[i][2] # loc.log[j][2]
        /\ \A i \in 1..Len(loc.log) :
              loc.log[i][3] = "moved" => loc.log[i][2] \in loc.snap

C7_Witness ==
    /\ pc = "retryall_loop"
    /\ loc.items = <<>>
    /\ CountOf(loc.log, {"moved"}) > 0
    /\ \E d \in DLQ : \E n \in DOMAIN fs[d] : fs[d][n].ino \notin loc.snap

\* C8: a retry loop goes through every named file in order whatever happens
\* to the ones before, counts exactly the moves that succeeded, never raises,
\* and reports that count
C8_RetryContinuesOnError ==
    /\ [](pc \in RetryLoops =>
            /\ Len(loc.log) + Len(loc.items) = Len(loc.items0)
            /\ \A i \in 1..Len(loc.log) : loc.log[i][1] = loc.items0[i]
            /\ loc.n = CountOf(loc.log, {"moved"}))
    /\ [][(pc \in RetryLoops /\ pc' # pc) =>
             (/\ loc.items = <<>>
              /\ pc' = "idle"
              /\ msg' = Msg("information", "Retry", loc.n, NoPath))]_vars

C8_Witness ==
    /\ pc \in RetryLoops
    /\ loc.items = <<>>
    /\ Len(loc.log) = 2
    /\ loc.log[1][3] = "error"
    /\ loc.log[1][2] # 0
    /\ loc.log[2][3] = "moved"
    /\ loc.n = 1

DeleteIteration ==
    /\ pc = "delete_loop"
    /\ loc.items # <<>>
    /\ loc'.items = Tail(loc.items)

C10_NoUncaughtIOError == pc # "aborted"

----------------------------------------------------------------------------
(* Circuit breaker store *)

\* the step in which force_close_breaker writes the document back
ForceCloseWrites == pc = "cb_write" /\ pc' = "cb_refresh"

\* the document as the worker will parse it after that step
WrittenDoc == {LoadsDoc(cbFile'.text)}

\* C11: when force_close writes, the file holds the whole document it read
\* (every tool of it), and every named tool that was in that document has
\* state closed, fails 0 and until the time of the call, which is not before
\* the call started, whatever the entry held before.
C11_ForceCloseClosesNamed ==
    [][ForceCloseWrites =>
          \A doc \in WrittenDoc :
              /\ IsDict(doc)
              /\ Keys(doc) = Keys(cb.read)
              /\ \A t \in cb.tools \cap Keys(cb.read) :
                    \A rec \in {Get(doc, t)} :
                        /\ Get(rec, "state") = "closed"
                        /\ Get(rec, "fails") = "0"
                        /\ Get(rec, "until") \in {Isoformat(k) : k \in cb.t0..now}]_vars

\* an open breaker of git was named and the document is written back
C11_Witness ==
    /\ pc = "cb_refresh"
    /\ "git" \in cb.tools \cap Keys(cb.read)
    /\ Get(Get(cb.read, "git"), "state") = "open"
    /\ Get(Get(cb.read, "git"), "fails") = "5"
    /\ cbFile.text = cb.out

\* C12: the document force_close writes has no tool the document it read did
\* not have, every entry that was not named is as it was read (all of its
\* fields), and a call that goes on to write has shown no message: a named
\* tool without an entry is passed over.
C12_ForceCloseFrame ==
    /\ [][ForceCloseWrites =>
             \A doc \in WrittenDoc :
                 /\ Keys(doc) \subseteq Keys(cb.read)
                 /\ \A t \in Keys(cb.read) \ cb.tools :
                       Get(doc, t) = Get(cb.read, t)]_vars
    /\ [][(pc = "idle" /\ pc' = "cb_open") => msg' = msg]_vars

\* aider was named from a stale row, the document has git only and is written
C12_Witness ==
    /\ pc = "cb_refresh"
    /\ "aider" \in cb.tools
    /\ Keys(cb.read) = {"git"}
    /\ cbFile.text = cb.out
    /\ Keys(LoadsDoc(cbFile.text)) = {"git"}

\* a click on Force Close: the one step that starts the handler
ForceCloseCalled == pc = "idle" /\ opsLeft' = opsLeft - 1

\* C13: a force_close that finds a document it cannot parse shows the Error
\* box and returns; the file is left as it was.
C13_BadDocumentIsAnError ==
    [][(ForceCloseCalled /\ cbFile.exists /\ LoadsDoc(cbFile.text) = ParseError) =>
          (/\ msg' = CbError
           /\ pc' = "idle"
           /\ cbFile' = cbFile)]_vars

\* force_close has run on a torn document while rows were still displayed
C13_Witness ==
    /\ msg = CbError
    /\ pc = "idle"
    /\ opsLeft < MaxOps
    /\ cbFile.exists
    /\ LoadsDoc(cbFile.text) = ParseError
    /\ breakerView # <<>>

\* C14: whenever the last refresh_breakers found no document, could not read
\* it, or read something that is not a JSON object, the table is empty (the
\* rows shown before are gone), and no handler has been left by an exception.
C14_UnusableDocumentShowsNoRows ==
    /\ (\/ ~cb.seen.file.exists
        \/ ~cb.seen.ok
        \/ ~IsDict(LoadsDoc(cb.seen.file.text))) => breakerView = <<>>
    /\ pc # "aborted"

\* rows were displayed and the refresh found a torn document
C14_Witness ==
    /\ cb.seen.before # <<>>
    /\ cb.seen.file.exists
    /\ cb.seen.ok
    /\ LoadsDoc(cb.seen.file.text) = ParseError
    /\ breakerView = <<>>

----------------------------------------------------------------------------
(* Ledger aggregator *)

\* the last refresh_metrics aggregated the ledger and showed the result
Aggregated == metrics.status = "ok"

\* the lines of the file read that are records: non-blank, parsed, objects
RecordsRead ==
    {i \in 1..Len(metrics.read) :
        /\ ~IsBlank(metrics.read[i])
        /\ IsDict(JsonLoads(metrics.read[i]))}

RecordAt(i) == JsonLoads(metrics.read[i])

IdAt(i) == GetOr(RecordAt(i), "id", "unknown")

AttemptAt(i) == RealVal(AttemptOf(RecordAt(i)))

IdsRead == {IdAt(i) : i \in RecordsRead}

Reverse(seq) == [i \in 1..Len(seq) |-> seq[Len(seq) + 1 - i]]

\* no two records of one id carry the same attempt
AttemptsDistinct ==
    \A i, j \in RecordsRead :
        (i # j /\ IdAt(i) = IdAt(j)) => AttemptAt(i) # AttemptAt(j)

SeqToSet(seq) == {seq[i] : i \in 1..Len(seq)}

\* C15: after an aggregation there is one final outcome per id read, it is a
\* record of that id whose attempt is the maximum over the records of the id,
\* and, attempts being distinct, aggregating the same lines in the opposite
\* order gives the same final outcomes.
C15_FinalIsMaxAttempt ==
    Aggregated =>
        /\ {f[1] : f \in SeqToSet(metrics.finals)} = IdsRead
        /\ Len(metrics.finals) = Cardinality(IdsRead)
        /\ \A f \in SeqToSet(metrics.finals) :
              \E i \in RecordsRead :
                  /\ IdAt(i) = f[1]
                  /\ RecordAt(i) = f[2]
                  /\ \A j \in RecordsRead : IdAt(j) = f[1] => AttemptAt(j) <= AttemptAt(i)
        /\ AttemptsDistinct =>
              SeqToSet(Aggregate(Reverse(metrics.read)).finals)
                  = SeqToSet(metrics.finals)

\* the successful attempt 1 of task 1 stands before its failed attempt 0
C15_Witness ==
    /\ Aggregated
    /\ metrics.read = <<LedgerRec("1", "git", "1", "true", "2000"),
                        LedgerRec("1", "git", "0", "false", "30000")>>
    /\ metrics.total = 1
    /\ metrics.success = 1

\* the ids whose final outcome is a success
IdsSucceeded ==
    {f[1] : f \in {g \in SeqToSet(metrics.finals) : Truthy(Get(g[2], "ok"))}}

\* C16: after an aggregation total is the number of distinct ids among the
\* records read, and success_rate is 100 * successes / total, where a success
\* is an id whose final outcome has ok true; it is 0 when total is 0. The
\* summary shows both, the rate to one decimal.
C16_TotalAndSuccessRate ==
    Aggregated =>
        /\ metrics.total = Cardinality(IdsRead)
        /\ metrics.success_rate[2] > 0
        /\ IF metrics.total = 0
           THEN metrics.success_rate[1] = 0
           ELSE metrics.success_rate[1] * metrics.total
                    = 100 * Cardinality(IdsSucceeded) * metrics.success_rate[2]
        /\ metrics.summary[1] = metrics.total
        /\ metrics.summary[2] = Tenths(metrics.success_rate)

\* two tasks, one of them succeeded: 50.0 %
C16_Witness ==
    /\ Aggregated
    /\ Len(metrics.read) = 3
    /\ metrics.total = 2
    /\ Cardinality(IdsSucceeded) = 1
    /\ metrics.summary[2] = 500

\* the final outcomes that carry a numeric duration_ms
FinalsTimed ==
    {i \in 1..Len(metrics.finals) : IsReal(Get(metrics.finals[i][2], "duration_ms"))}

RECURSIVE SumMs(_)
SumMs(S) ==
    IF S = {} THEN 0
    ELSE LET i == CHOOSE x \in S : TRUE
         IN  RealVal(Get(metrics.finals[i][2], "duration_ms")) + SumMs(S \ {i})

\* C17: after an aggregation avg_duration is the sum of duration_ms of the
\* final outcomes that have a numeric one, over 1000 times their number: other
\* finals and the durations of earlier attempts are in neither; it is 0 when
\* no final outcome has a duration.
C17_AvgDurationOverTimedFinals ==
    Aggregated =>
        IF FinalsTimed = {}
        THEN metrics.avg_duration[1] = 0 /\ metrics.avg_duration[2] > 0
        ELSE /\ metrics.avg_duration[1] = SumMs(FinalsTimed)
             /\ metrics.avg_duration[2] = 1000 * Cardinality(FinalsTimed)

\* task 1 ends without a duration after a timed first attempt, task 2 took 45 s
C17_Witness ==
    /\ Aggregated
    /\ metrics.read = <<LedgerRec("1", "git", "0", "false", "30000"),
                        LedgerRec("1", "aider", "1", "false", ""),
                        LedgerRec("2", "aider", "2", "true", "45000")>>
    /\ metrics.avg_duration = Rat(45000, 1000)

\* the upper bounds of the buckets the labels name, in seconds
UpperBounds == <<30, 60, 120, 300, 600>>

\* duration d belongs under label k
InBucket(d, k) ==
    IF k = Len(HistLabels) THEN ~RatLe(d, UpperBounds[Len(UpperBounds)])
    ELSE /\ RatLe(d, UpperBounds[k])
         /\ k > 1 => ~RatLe(d, UpperBounds[k - 1])

\* C18: after an aggregation the count shown under each label is the number
\* of durations whose first bucket (the first upper bound of 30, 60, 120, 300,
\* 600 they do not exceed, bounds inclusive; >600 beyond) that label names.
C18_HistogramCountsPerLabel ==
    Aggregated =>
        \A k \in 1..Len(HistLabels) :
            metrics.counts[k] =
                Cardinality({i \in 1..Len(metrics.durations) :
                                InBucket(metrics.durations[i], k)})

\* a line that is a record refresh_metrics can use
Usable(ln) ==
    /\ ~IsBlank(ln)
    /\ IsDict(JsonLoads(ln))
    /\ ~BadShape(JsonLoads(ln))

\* C19: a refresh that read the ledger completes, and what it shows is the
\* aggregation of the usable lines alone: lines that are not JSON, not an
\* object or carry a non-integer attempt change nothing.
C19_MalformedLineIsSkipped ==
    metrics.status \in {"ok", "aborted"} =>
        /\ metrics.status = "ok"
        /\ metrics.finals = Aggregate(SelectSeq(metrics.read, Usable)).finals
        /\ metrics.total = Aggregate(SelectSeq(metrics.read, Usable)).total

----------------------------------------------------------------------------
(* Log tailer *)

\* what a consumer is shown of lines: the non-blank ones, without their
\* trailing blanks
Shown(lines) ==
    LET kept == SelectSeq(lines, LAMBDA ln : ~IsBlank(ln))
    IN  [i \in 1..Len(kept) |-> RStrip(kept[i])]

RECURSIVE Flatten(_)
Flatten(batches) ==
    IF batches = <<>> THEN <<>> ELSE batches[1] \o Flatten(Tail(batches))

\* a poll that read the file ends
PollHasRead == tailer.pc = "read" /\ tailer'.pc = "idle" /\ tailer'.last = "ok"

\* C20: on a log that only grows by whole lines, a poll that reads the file
\* emits, as one batch and in file order, the non-blank lines appended since
\* the previous read (all lines of the file at the first read), each without
\* its trailing blanks, and emits nothing when there are none; all batches
\* together are the non-blank lines read so far, each once.
C20_PollEmitsAppendedLinesOnce ==
    /\ [][PollHasRead =>
             LET new == Shown(SubSeq(logf.lines, tailer.linesSeen + 1,
                                     Len(logf.lines)))
             IN  emitted' = IF new = <<>> THEN emitted ELSE Append(emitted, new)]_vars
    /\ [](Flatten(emitted) = Shown(SubSeq(logf.lines, 1, tailer.linesSeen)))

\* the first poll emitted a, the second only the b appended after it
C20_Witness ==
    /\ tailer.pc = "idle"
    /\ tailer.last = "ok"
    /\ logf.lines = <<<<"a">>, <<"b", " ">>>>
    /\ emitted = <<<<<<"a">>>>, <<<<"b">>>>>>

\* a poll that read the file whose last truncation fell between two polls,
\* after the tailer had read past the start
PollAfterTruncation ==
    /\ PollHasRead
    /\ tailer.before.pos > 0
    /\ tailer.before.cuts = logf.cuts
    /\ logf.cuts > tailer.cutsSeen

\* C21: when the log was emptied after the tailer had read some of it and new
\* content of any length was written before the next poll, that poll emits
\* the non-blank lines of the new content, all of them and nothing else.
C21_PollAfterTruncationEmitsNewContent ==
    [][PollAfterTruncation =>
          emitted' = IF Batch(logf.data) = <<>> THEN emitted
                     ELSE Append(emitted, Batch(logf.data))]_vars

\* a poll that failed after it had passed the stat
PollFailsInRead ==
    /\ tailer.pc = "read"
    /\ tailer'.pc = "idle"
    /\ tailer'.last = "error"

\* C22: a poll of a tailer that knows the file and hits an I/O error emits
\* nothing and leaves the position and the identity as they were when the
\* poll began.
C22_FailedPollKeepsPosition ==
    [][(PollFailsInRead /\ tailer.before.inode # NoInode) =>
          /\ emitted' = emitted
          /\ tailer'.pos = tailer.before.pos
          /\ tailer'.inode = tailer.before.inode]_vars

\* a call of load that went through: the catalog assigned, changed emitted
TemplatesLoaded ==
    /\ templates'.ops = templates.ops + 1
    /\ templates'.last = "loaded"

\* the document the call of load was given, parsed
LoadedDoc == {JsonLoad(templates'.doc)}

\* the name and the task of the i-th item of a list document
ItemName(items, i) ==
    IF Has(items[i], "name") THEN Get(items[i], "name")[1][2]
    ELSE "Template " \o ToString(i)

ItemTask(items, i) == GetOr(items[i], "task", <<>>)

\* the names a document gives: those of its items, or its keys
DocNames(data) ==
    IF IsList(data) THEN {ItemName(data[1][2], i) : i \in 1..Len(data[1][2])}
    ELSE Keys(data)

\* C23: a load of a list or an object document replaces the catalog as a
\* whole: a name that was in the catalog before the load and is not a name of
\* the loaded document is not in the catalog after it.
C23_LoadReplacesExternalTemplates ==
    [][\A data \in LoadedDoc :
          (TemplatesLoaded /\ ~IsScalar(data)) =>
              \A n \in Keys(templates.templates) \ DocNames(data) :
                  ~Has(templates'.templates, n)]_vars

\* the object {Other: ...} was loaded, then the object {Custom: ..., Python: ...}
C23_Witness ==
    /\ templates.last = "loaded"
    /\ templates.ops = 2
    /\ Keys(templates.before) = {"Other"}
    /\ IsObject(JsonLoad(templates.doc))
    /\ Keys(JsonLoad(templates.doc)) = {"Custom", "Python"}
    /\ Keys(templates.templates) = {"Custom", "Python"}

\* the templates of a document, <<name, task>>: the items of a list, the items
\* of the list under templates, the members of an object
DocTemplates(data) ==
    LET items == IF IsList(data) THEN data[1][2] ELSE Get(data, "templates")[1][2]
    IN  IF IsList(data) \/ (Has(data, "templates") /\ IsList(Get(data, "templates")))
        THEN {<<ItemName(items, i), ItemTask(items, i)>> : i \in 1..Len(items)}
        ELSE {<<data[i][1], data[i][2]>> : i \in 1..Len(data)}

\* C24: after a load of a document of one of the three shapes the catalog
\* holds every template name of the document, mapped to the task of a
\* template of that name.
C24_AllThreeShapesAccepted ==
    [][\A data \in LoadedDoc :
          (TemplatesLoaded /\ ~IsScalar(data)) =>
              \A nt \in DocTemplates(data) :
                  /\ Has(templates'.templates, nt[1])
                  /\ \E mt \in DocTemplates(data) :
                        /\ mt[1] = nt[1]
                        /\ mt[2] = Get(templates'.templates, nt[1])]_vars

\* C25: the builtin templates that are in the catalog before a load are in
\* it after the load.
C25_BuiltinSurvivesLoad ==
    [][(TemplatesLoaded /\ Keys(Builtin) \subseteq Keys(templates.templates)) =>
          Keys(Builtin) \subseteq Keys(templates'.templates)]_vars

\* a call of load of a list document that went through
ListLoaded(data) == TemplatesLoaded /\ IsList(data)

\* a call of builtin
BuiltinSeeded ==
    /\ templates'.ops = templates.ops + 1
    /\ templates'.last = "builtin"

\* C26 as stated: after a load of a list document the catalog has as many
\* entries as the list has items, the name of every item (its name, or
\* Template and its 1-based position) is mapped to that item's task, and
\* every load that goes through and every builtin() emits changed once.
C26_OneEntryPerListItem ==
    [][\A data \in LoadedDoc :
          /\ ListLoaded(data) =>
                /\ Len(templates'.templates) = Len(data[1][2])
                /\ \A i \in 1..Len(data[1][2]) :
                      /\ Has(templates'.templates, ItemName(data[1][2], i))
                      /\ Get(templates'.templates, ItemName(data[1][2], i))
                             = ItemTask(data[1][2], i)
          /\ (TemplatesLoaded \/ BuiltinSeeded) =>
                templates'.changed = templates.changed + 1]_vars

\* the last item of the list that has the name of the i-th
LastNamed(items, i) ==
    CHOOSE j \in 1..Len(items) :
        /\ ItemName(items, j) = ItemName(items, i)
        /\ \A k \in (j + 1)..Len(items) : ItemName(items, k) # ItemName(items, i)

\* C26: after a load of a list document the catalog has one entry per
\* distinct item name (its name, or Template and its 1-based position), mapped
\* to the task of the last item of that name, an empty object when that item
\* has no task; every load that goes through and every builtin() emits
\* changed once, a load that fails emits nothing and changes nothing.
C26_ListLoadKeysAndNotifies ==
    [][\A data \in LoadedDoc :
          /\ ListLoaded(data) =>
                /\ Keys(templates'.templates) = DocNames(data)
                /\ Len(templates'.templates) = Cardinality(DocNames(data))
                /\ \A i \in 1..Len(data[1][2]) :
                      Get(templates'.templates, ItemName(data[1][2], i))
                          = ItemTask(data[1][2], LastNamed(data[1][2], i))
          /\ (TemplatesLoaded \/ BuiltinSeeded) =>
                templates'.changed = templates.changed + 1
          /\ (templates'.ops = templates.ops + 1 /\ templates'.last = "failed") =>
                /\ templates'.changed = templates.changed
                /\ templates'.templates = templates.templates]_vars

\* the list with Custom twice was loaded after builtin(): one entry, the
\* task of the second item, two notifications
C26_Witness ==
    /\ templates.last = "loaded"
    /\ IsList(JsonLoad(templates.doc))
    /\ Len(JsonLoad(templates.doc)[1][2]) = 2
    /\ templates.before = Builtin
    /\ Keys(templates.templates) = {"Custom"}
    /\ Get(Get(templates.templates, "Custom"), "tool") = <<<<"scalar", "aider">>>>
    /\ templates.changed = 2

\* the moments the timestamp of the document the last check found denotes
StampSeen ==
    LET data == JsonLoads(status.seen.file.text)
    IN  IF status.seen.file.exists /\ IsDict(data) /\ Has(data, "timestamp")
        THEN {k \in HbTimes : Get(data, "timestamp") \in {Isoformat(k), Isoformat(k) \o "Z"}}
        ELSE {}

\* C27: after check_heartbeat the worker is shown active exactly when the
\* document existed, was read, parsed and carried a timestamp at most 10
\* seconds before the check, whatever its pid; a missing document shows
\* No heartbeat, one that cannot be read or parsed Heartbeat: unreadable, both
\* inactive; a document with a timestamp shows its age and its pid, ? when it
\* has none.
C27_ActiveIffFreshHeartbeat ==
    status.seen.checked =>
        /\ status.active <=>
               /\ status.seen.ok
               /\ \E k \in StampSeen : status.seen.t - k <= 10
        /\ ~status.seen.file.exists =>
               (status.text = "No heartbeat" /\ ~status.active)
        /\ (status.seen.file.exists /\ (~status.seen.ok \/ StampSeen = {})) =>
               (status.text = "Heartbeat: unreadable" /\ ~status.active)
        /\ (status.seen.ok /\ StampSeen # {}) =>
               \E k \in StampSeen, pid \in {"4321", "?"} :
                   /\ pid = GetOr(JsonLoads(status.seen.file.text), "pid", "?")
                   /\ status.text = "Heartbeat: " \o ToString(status.seen.t - k)
                                        \o "s ago  |  PID " \o pid

\* a heartbeat stamped exactly ten seconds before the check: active
C27_Witness ==
    /\ status.seen.checked
    /\ status.seen.ok
    /\ status.seen.file = [exists |-> TRUE, text |-> HbDoc(Isoformat(-9), "4321")]
    /\ status.seen.t = 1
    /\ status.active
    /\ status.text = "Heartbeat: 10s ago  |  PID 4321"

\* C28: the write of force_close puts in place exactly the text it computed
\* from the document it had read, whatever the worker has written since: the
\* tools are those read, every tool that was not named is as it was read, so
\* an update of the worker made after the read is lost for every tool; and
\* the document only ever changes to the whole text of one writer (a
\* document of the worker, the emptied file and then the text of force_close).
C28_LastWriterWins ==
    /\ [][ForceCloseWrites =>
             /\ cbFile' = [exists |-> TRUE, text |-> cb.out]
             /\ \A doc \in WrittenDoc :
                   /\ Keys(doc) = Keys(cb.read)
                   /\ \A t \in Keys(doc) \ cb.tools : Get(doc, t) = Get(cb.read, t)]_vars
    /\ [][(cbFile' # cbFile /\ ~ForceCloseWrites) =>
             \/ pc = "cb_open" /\ cbFile' = [exists |-> TRUE, text |-> <<>>]
             \/ cbFile' \in CbFiles /\ pc' = pc]_vars

\* force_close read a document with git alone and closed git; before its write
\* the worker put another document in place; the file holds what force_close
\* wrote, git alone
C28_Witness ==
    /\ pc = "cb_refresh"
    /\ cb.raced
    /\ Keys(cb.read) = {"git"}
    /\ cb.tools = {"git"}
    /\ cbFile.text = cb.out
    /\ Keys(LoadsDoc(cbFile.text)) = {"git"}

\* C29: when enqueue has written, inbox holds one file for the id, named
\* task_<id>.jsonl, and that file is one line, the envelope of this call:
\* nothing of a file of that name written before remains.
C29_EnqueueOverwritesSameId ==
    [][EnqueueWroteInbox =>
          /\ loc.path[2] = TaskName(Get(loc.task, "id"))
          /\ {n \in DOMAIN fs'["inbox"] : Get(loc.task, "id") \in SeqToSet(n)}
                 = {loc.path[2]}
          /\ fs'["inbox"][loc.path[2]].data = <<JsonDumps(loc.task)>>
          /\ JsonLoads(fs'["inbox"][loc.path[2]].data[1]) = loc.task]_vars

\* two envelopes without id were enqueued within one second: the file named
\* after that second held the git envelope and now holds the aider envelope
C29_Witness ==
    /\ pc = "idle"
    /\ msg.title = "Queued"
    /\ loc.log # <<>>
    /\ loc.log[1][1] = "overwrote"
    /\ \E t \in 1..now :
          /\ msg.path[2] = TaskName(Strftime(t))
          /\ loc.log[1][2] = <<JsonDumps(Envelope(Strftime(t), "git"))>>
          /\ Exists(fs, "inbox", msg.path[2])
          /\ fs["inbox"][msg.path[2]].data
                 = <<JsonDumps(<<<<"tool", "aider">>, <<"id", Strftime(t)>>>>)>>

\* the attempt of the i-th line read, 0 when the record carries none
AttemptOrZero(i) ==
    IF Has(RecordAt(i), "attempt") THEN RealVal(Get(RecordAt(i), "attempt")) ELSE 0

\* the last of the lines read among those of id tid with the highest attempt
LastOfHighest(tid) ==
    LET R == {i \in RecordsRead : IdAt(i) = tid}
        top == {i \in R : \A j \in R : AttemptOrZero(j) <= AttemptOrZero(i)}
    IN  CHOOSE i \in top : \A j \in top : j <= i

\* C30: after an aggregation the final outcome of every id is the record
\* that stands last in the file among the records of the id with the highest
\* attempt, a record without attempt counting as attempt 0: records with
\* equal attempts, and records that all lack one, are settled by the later
\* line.
C30_MissingAttemptIsZeroLastLineWins ==
    Aggregated =>
        \A f \in SeqToSet(metrics.finals) : f[2] = RecordAt(LastOfHighest(f[1]))

\* task 1 failed in attempt 0 and then succeeded in a record without attempt:
\* the later record is its final outcome
C30_Witness ==
    /\ Aggregated
    /\ metrics.read = <<LedgerRec("1", "git", "0", "false", "30000"),
                        LedgerRec("1", "aider", "", "true", "2000")>>
    /\ metrics.total = 1
    /\ metrics.success = 1

\* the tool of the last of the lines read that is a record of id tid
LastToolOf(tid) ==
    LET R == {i \in RecordsRead : IdAt(i) = tid}
        last == CHOOSE i \in R : \A j \in R : j <= i
    IN  GetOr(RecordAt(last), "tool", "unknown")

\* the ids counted under a tool, and those of them whose final outcome is ok
IdsOfTool(tool) == {tid \in IdsRead : LastToolOf(tid) = tool}

IdsOfToolOk(tool) ==
    {tid \in IdsOfTool(tool) : Truthy(Get(RecordAt(LastOfHighest(tid)), "ok"))}

\* C31: after an aggregation the per-tool breakdown has one entry for every
\* tool that is the tool of the last record of some id, and no other; its
\* total is the number of ids whose last record in file order names the
\* tool, so every id is counted under exactly one tool, and its success is
\* the number of those ids whose final (maximum-attempt) outcome is ok.
C31_ToolOfLastRecordOkOfFinal ==
    Aggregated =>
        /\ \A i, j \in 1..Len(metrics.tool_stats) :
              metrics.tool_stats[i][1] = metrics.tool_stats[j][1] => i = j
        /\ {st[1] : st \in SeqToSet(metrics.tool_stats)}
              = {LastToolOf(tid) : tid \in IdsRead}
        /\ \A st \in SeqToSet(metrics.tool_stats) :
              /\ st[2].total = Cardinality(IdsOfTool(st[1]))
              /\ st[2].success = Cardinality(IdsOfToolOk(st[1]))

\* task 1 succeeded with git in attempt 1 and a later record of attempt 0
\* names aider: the task is counted under aider, with the success of the
\* git attempt
C31_Witness ==
    /\ Aggregated
    /\ metrics.read = <<LedgerRec("1", "git", "1", "true", "2000"),
                        LedgerRec("1", "aider", "", "true", "2000")>>
    /\ metrics.tool_stats = <<<<"aider", [total |-> 1, success |-> 1]>>>>
    /\ metrics.finals = <<<<"1", JsonLoads(LedgerRec("1", "git", "1", "true", "2000"))>>>>

(* Log tailer: rotation, batches, partial lines, position *)

\* a poll passes the stat and finds a file that is not the one it knows
PollFindsOtherFile ==
    /\ tailer.pc = "idle"
    /\ tailer'.pc = "read"
    /\ tailer.inode # logf.ino

\* a poll that found another file reads it
PollReadsOtherFile == PollHasRead /\ tailer.before.inode # tailer.inode

\* a poll finds no file at the path
PollFindsNoFile == tailer.pc = "idle" /\ ~logf.exists /\ tailer' # tailer

\* C32: a poll that finds at the path a file whose identity is not the stored
\* one sets the position to 0 and stores the new identity, and when it then
\* reads the file it emits all non-blank lines of the file from the first one
\* on, whatever the earlier position was; a poll that finds no file at the
\* path emits nothing and leaves position and identity as they were.
C32_RotationRestartsAbsentFileKeeps ==
    /\ [][PollFindsOtherFile =>
             /\ tailer'.pos = 0
             /\ tailer'.inode = logf.ino
             /\ emitted' = emitted]_vars
    /\ [][PollReadsOtherFile =>
             /\ emitted' = IF Shown(logf.lines) = <<>> THEN emitted
                           ELSE Append(emitted, Shown(logf.lines))
             /\ tailer'.pos = Len(logf.data)]_vars
    /\ [][PollFindsNoFile =>
             /\ emitted' = emitted
             /\ tailer'.pos = tailer.pos
             /\ tailer'.inode = tailer.inode
             /\ tailer'.pc = "idle"]_vars

\* the tailer had read the two characters of the first file; the second file
\* had grown to three when the next poll came, and was emitted from its first
\* line
C32_Witness ==
    /\ tailer.pc = "idle"
    /\ tailer.last = "ok"
    /\ tailer.before = [pos |-> 2, inode |-> 1, cuts |-> 0]
    /\ tailer.inode = 2
    /\ tailer.pos = 3
    /\ logf.lines = <<<<"b", " ">>>>
    /\ emitted = <<<<<<"a">>>>, <<<<"b">>>>>>

\* the lines of a text: the characters between one newline and the next, and
\* those after the last newline when there are any
LinesOf(text) ==
    LET nl == {i \in 1..Len(text) : text[i] = NL}
        ends == nl \cup (IF text # <<>> /\ text[Len(text)] # NL
                         THEN {Len(text) + 1} ELSE {})
        EndNo(k) == CHOOSE e \in ends : Cardinality({x \in ends : x < e}) = k - 1
        StartOf(e) == CHOOSE b \in 1..e :
                          /\ \A i \in b..(e - 1) : text[i] # NL
                          /\ b = 1 \/ text[b - 1] = NL
    IN  [k \in 1..Cardinality(ends) |-> SubSeq(text, StartOf(EndNo(k)), EndNo(k) - 1)]

\* a line without the blanks at its end
Trimmed(ln) ==
    SubSeq(ln, 1, CHOOSE n \in 0..Len(ln) :
                      /\ n = 0 \/ ln[n] # " "
                      /\ \A i \in (n + 1)..Len(ln) : ln[i] = " ")

\* the non-blank lines of a text, each without the blanks at its end
Inked(text) ==
    LET kept == SelectSeq(LinesOf(text), LAMBDA ln : \E i \in 1..Len(ln) : ln[i] # " ")
    IN  [i \in 1..Len(kept) |-> Trimmed(kept[i])]

\* what a poll reads: the file from the position to its end
ChunkRead == SubSeq(logf.data, tailer.pos + 1, Len(logf.data))

\* C33: a poll that reads the file splits what it read at the newlines, drops
\* the lines that are empty or all blanks and emits the others, each without
\* its trailing blanks, as one batch in file order; when nothing was read or
\* no line is left it emits nothing; in both cases the position moves past
\* what was read. No batch is ever empty and no emitted line is blank.
C33_OneBatchOfNonBlankLines ==
    /\ [][PollHasRead =>
             /\ emitted' = IF Inked(ChunkRead) = <<>> THEN emitted
                           ELSE Append(emitted, Inked(ChunkRead))
             /\ tailer'.pos = tailer.pos + Len(ChunkRead)]_vars
    /\ [](\A i \in 1..Len(emitted) :
             /\ emitted[i] # <<>>
             /\ \A j \in 1..Len(emitted[i]) :
                   \E k \in 1..Len(emitted[i][j]) : emitted[i][j][k] # " ")

\* one poll read b with a trailing blank and a and emitted one batch of b
\* and a; the next poll read a blank line and emitted nothing, with the
\* position moved to the end of the file
C33_Witness ==
    /\ tailer.pc = "idle"
    /\ tailer.last = "ok"
    /\ logf.data = <<"b", " ", NL, "a", NL, " ", NL>>
    /\ tailer.before.pos = 5
    /\ tailer.pos = 7
    /\ emitted = <<<<<<"b">>, <<"a">>>>>>

(* Inbox files, retry, edit and template loads *)

\* C34: at every moment every file in inbox under a name that enqueue or
\* edit_and_retry gives (task_<id>.jsonl, edited_<ts>_<name>) consists of
\* non-blank lines that are each one JSON value, and a task_<id>.jsonl file
\* holds exactly one line.
C34_InboxFilesAreJsonLines ==
    \A n \in DOMAIN fs["inbox"] :
        LET data == fs["inbox"][n].data
        IN  /\ n[1] \in {"task_", "edited_"} =>
                  \A k \in 1..Len(data) : ~IsBlank(data[k]) /\ JsonValid(data[k])
            /\ n[1] = "task_" => Len(data) = 1

\* the envelope files of the three directories, as inodes
EnvelopesIn(f) == UNION {Inos(f, d) : d \in Dirs}

\* C35: no iteration of retry or retry_all removes an envelope: every file
\* that was in inbox, failed or quarantine before the iteration is in one of
\* the three directories after it, and their number is the same.
C35_RetryConservesEnvelopes ==
    [][RetryIteration =>
          /\ EnvelopesIn(fs) \subseteq EnvelopesIn(fs')
          /\ Cardinality(EnvelopesIn(fs')) = Cardinality(EnvelopesIn(fs))]_vars

\* C36: on a log that is neither rotated nor truncated, between polls the
\* lines emitted so far, in order, are the non-blank lines of the part of the
\* file before the position, so that a line written in two writes with a
\* poll in between is emitted once and whole.
C36_EmittedAreLinesOfConsumedPrefix ==
    tailer.pc = "idle" =>
        Flatten(emitted) = Inked(SubSeq(logf.data, 1, tailer.pos))

\* a step of a poll that sets the position back to the start of the file
PollResets == tailer.pc = "idle" /\ tailer'.pc = "read"

\* C37: the position is never negative; a poll that reads leaves it at an
\* offset within the file it read; a poll that fails leaves it where the
\* last successful read ended; it decreases only where a poll resets it; a
\* poll that finds no new bytes leaves it unchanged and emits nothing.
C37_PositionWithinFileAndMonotonic ==
    /\ [](tailer.pos >= 0)
    /\ [][PollHasRead => tailer'.pos <= Len(logf.data)]_vars
    /\ [][PollFailsInRead => tailer'.pos = tailer.before.pos]_vars
    /\ [][tailer'.pos < tailer.pos => PollResets]_vars
    /\ [][(PollHasRead /\ ChunkRead = <<>>) =>
             tailer'.pos = tailer.pos /\ emitted' = emitted]_vars

\* edit_and_retry between the dialog and the end of its write
EditBeforeBackup == {"edit_dialog", "edit_open", "edit_write"}

\* the write of the new file fails, in its open or in its write
EditWriteFails == pc \in {"edit_open", "edit_write"} /\ pc' = "aborted"

\* a step leaves failed and quarantine with the names they had and changes no
\* file in them but the one the handler is writing
DlqKept ==
    \A dd \in DLQ :
        /\ DOMAIN fs'[dd] = DOMAIN fs[dd]
        /\ \A n \in DOMAIN fs[dd] :
              fs[dd][n].ino # loc.ino => fs'[dd][n] = fs[dd][n]

\* C38: until edit_and_retry has written the new file no step changes the
\* original or the directory it is in, so when the write fails the original
\* is under its name with its content and has no backup name; the handler
\* reaches the step that retires the original only from a write that
\* succeeded, with the validated lines in the new file, and the original
\* leaves its name in that step only.
C38_EditWritesBeforeRetiring ==
    /\ [][(pc \in EditBeforeBackup) =>
             LET d == loc.path[1]
                 name == loc.path[2]
             IN  /\ Exists(fs, d, name)
                 /\ Exists(fs', d, name)
                 /\ fs'[d][name] = fs[d][name]
                 /\ fs[d][name].ino = EditedOriginal
                 /\ (pc' # pc => DlqKept)]_vars
    /\ [][EditWriteFails =>
             /\ Links(fs', EditedOriginal) = {loc.path}
             /\ \A dd \in DLQ : fs'[dd] = fs[dd]]_vars
    /\ [][(pc' = "edit_backup" /\ pc # "edit_backup") =>
             /\ pc = "edit_write"
             /\ loc.lines # <<>>
             /\ \A l \in Links(fs', loc.ino) : fs'[l[1]][l[2]].data = loc.lines
             /\ (Links(fs, loc.ino) = {<<"inbox", loc.newName>>} =>
                    Links(fs', loc.ino) = {<<"inbox", loc.newName>>})]_vars
    /\ [][(loc.snap # {} /\ pc \in EditWriting
             /\ Links(fs', EditedOriginal) # Links(fs, EditedOriginal)) =>
             pc = "edit_backup"]_vars

\* the write of the new file failed after its open: an empty edited file is
\* in inbox, the original is where it was and nothing carries a backup name
C38_Witness ==
    /\ pc = "aborted"
    /\ \E n \in DOMAIN fs["inbox"] : n[1] = "edited_" /\ fs["inbox"][n].data = <<>>
    /\ Exists(fs, "failed", TaskName("a"))
    /\ fs["failed"][TaskName("a")].data = <<JsonDumps(Envelope("a", "git"))>>
    /\ \A d \in Dirs : \A n \in DOMAIN fs[d] : n[Len(n)] # ".bak"

\* a call of load ends, whatever way
LoadCalled == templates'.ops = templates.ops + 1 /\ templates'.last \in {"loaded", "failed"}

\* a document load cannot take: no JSON, or a list with an item that is no object
Unloadable(data) ==
    \/ data = ParseError
    \/ IsList(data) /\ \E i \in 1..Len(data[1][2]) : ~IsObject(data[1][2][i])

\* C39: a call of load that fails - the file cannot be opened or read, the
\* text is no JSON, or a list holds an item that is no object - leaves the
\* catalog as it was and emits no changed; every call of load leaves either
\* the catalog it found or a catalog whose names are exactly those of the
\* loaded document, never a mixture.
C39_LoadIsAllOrNothing ==
    /\ [][(LoadCalled /\ templates'.last = "failed") =>
             /\ templates'.templates = templates.templates
             /\ templates'.changed = templates.changed]_vars
    /\ [][\A data \in LoadedDoc :
             (LoadCalled /\ Unloadable(data)) => templates'.last = "failed"]_vars
    /\ [][\A data \in LoadedDoc :
             LoadCalled =>
                 \/ templates'.templates = templates.templates
                 \/ /\ ~Unloadable(data)
                    /\ Keys(templates'.templates) = DocNames(data)]_vars

\* the catalog held the builtin templates when a list whose second item is
\* no object was loaded: the load failed, the catalog and the count of
\* changed are as before
C39_Witness ==
    /\ templates.last = "failed"
    /\ templates.doc = <<"[">> \o ItemText("Custom", "git") \o <<",", "x", "]">>
    /\ templates.before = Builtin
    /\ templates.templates = Builtin
    /\ templates.changed = 1

====
